---- MODULE Spec2Model ----
(***************************************************************************)
(* GA4 report tools behind an MCP endpoint (pyxis-tsubasa/GA-mcp).         *)
(*                                                                         *)
(* The repository holds four variants of the server:                       *)
(*   "server_js"  src/server.js            hand-written /mcp gateway       *)
(*   "mjs_v1"     src/server.mjs 1-258     MCP SDK, three tools            *)
(*   "mjs_v2"     src/server.mjs 260-1187  MCP SDK, fourteen tools         *)
(*   "part_000"   src/unnamed/part_000     MCP SDK, handlers catch errors  *)
(*                                                                         *)
(* Spec        the invocation gateway: startup, authentication, dispatch,  *)
(*             handler, backend call, response.                            *)
(* SpecReport  the report normalizers applied to a raw backend response.   *)
(* SpecPeriod  ga_channel_summary_compare: the comparison period.          *)
(* SpecCompare ga_channel_summary_compare: the merge of the two reports.   *)
(* SpecAnomaly ga_daily_anomalies: the detector on a daily series.         *)
(* SpecFunnel  ga_funnel_basic: validation, compilation, flattening.       *)
(* SpecShared  two invocations through the one transport of an SDK file.   *)
(***************************************************************************)
EXTENDS Integers, Sequences, FiniteSets, TLC

(***************************************************************************)
(* Bounds of the model.                                                    *)
(***************************************************************************)
MaxReq == 1
MaxRows == 2
MaxDims == 1
MaxMets == 1

(***************************************************************************)
(* JavaScript values.  A value is a record tagged by its type, so that a   *)
(* string "42", the number 42, null and undefined stay distinct.           *)
(***************************************************************************)
UNDEF == [t |-> "undefined"]
NULL == [t |-> "null"]
NaN == [t |-> "nan"]
Infinity == [t |-> "inf"]
Str(s) == [t |-> "str", s |-> s]
Num(n) == [t |-> "num", n |-> n]

\* truthiness of a value (operands of ||, !, if)
Falsy(v) ==
    \/ v.t \in {"undefined", "null", "nan"}
    \/ v.t = "str" /\ v.s = ""
    \/ v.t = "num" /\ v.n = 0

\* a || b
JsOr(a, b) == IF Falsy(a) THEN b ELSE a

\* a ?? b
Coalesce(a, b) == IF a.t \in {"undefined", "null"} THEN b ELSE a

\* the numeric strings of the model and the number each one parses to
ParseNumeric(s) ==
    CASE s = "" -> Num(0)
      [] s = "0" -> Num(0)
      [] s = "7" -> Num(7)
      [] s = "42" -> Num(42)
      [] s = "-3" -> Num(0 - 3)
      [] s = "Infinity" -> Infinity
      [] OTHER -> NaN

\* Number(v)
Number(v) ==
    CASE v.t = "undefined" -> NaN
      [] v.t = "null" -> Num(0)
      [] v.t = "str" -> ParseNumeric(v.s)
      [] OTHER -> v

\* Number.isFinite(n)
IsFinite(n) == n.t = "num"

\* a + b on numbers (the only sums are of report metrics)
JsAdd(a, b) ==
    CASE a.t = "nan" \/ b.t = "nan" -> NaN
      [] a.t = "inf" \/ b.t = "inf" -> Infinity
      [] OTHER -> Num(a.n + b.n)

\* String(v) and `${v}` for the numbers and strings of the model
StringOf(v) ==
    CASE v.t = "str" -> v.s
      [] v.t = "num" /\ v.n = 5 -> "5"
      [] v.t = "num" /\ v.n = 20 -> "20"
      [] v.t = "num" /\ v.n = 30 -> "30"
      [] v.t = "num" /\ v.n = 50 -> "50"
      [] v.t = "num" /\ v.n = 1000 -> "1000"
      [] OTHER -> v.t

\* an array that may be missing altogether (rows, dimensionValues, ...)
Arr(cells) == [present |-> TRUE, cells |-> cells]
ABSENT == [present |-> FALSE, cells |-> <<>>]

\* arr?.[i]?.value on an array of {value} cells, i counted from 1
ValueAt(arr, i) ==
    IF ~arr.present \/ i > Len(arr.cells) THEN UNDEF ELSE arr.cells[i]

\* arr || [] and arr ?? []
OrEmpty(arr) == IF arr.present THEN arr.cells ELSE <<>>

(***************************************************************************)
(* State.                                                                  *)
(***************************************************************************)
VARIABLES
    variant,          \* which server file is deployed
    GA4_PROPERTY_ID,  \* process.env.GA4_PROPERTY_ID, "" when not set
    MCP_API_KEY,      \* process.env.MCP_API_KEY, "" when not set
    MCP_PATH_TOKEN,   \* process.env.MCP_PATH_TOKEN, "" when not set
    proc,             \* "boot", "serving" or "exited"
    inv,              \* the invocations: request, position, response
    rq,               \* SpecReport: the report request
    raw,              \* SpecReport: the raw backend response
    kv,               \* SpecReport: the rows of runReportKV
    js,               \* SpecReport: the rows of the server.js handlers
    rp,               \* SpecReport: position
    pd,               \* SpecPeriod: one call of ga_channel_summary_compare
    cm,               \* SpecCompare: the two reports and the merged rows
    an,               \* SpecAnomaly: the series and the detector's loop
    fn,               \* SpecFunnel: one call of ga_funnel_basic
    tp                \* SpecShared: the one transport of the SDK variants

gwVars == <<variant, GA4_PROPERTY_ID, MCP_API_KEY, MCP_PATH_TOKEN, proc, inv>>
rpVars == <<rq, raw, kv, js, rp>>
drVars == <<pd, cm, an>>
exVars == <<fn, tp>>
vars == <<variant, GA4_PROPERTY_ID, MCP_API_KEY, MCP_PATH_TOKEN, proc, inv,
          rq, raw, kv, js, rp, pd, cm, an, fn, tp>>

Variants == {"server_js", "mjs_v1", "mjs_v2", "part_000"}
SdkVariants == {"mjs_v1", "mjs_v2", "part_000"}
Reqs == 1..MaxReq

(***************************************************************************)
(* server.js: the registry and the three handlers.                         *)
(***************************************************************************)
\* TOOLS: name, declared type of each parameter, dimension of the report
TOOLS ==
    << [name |-> "ga_channel_summary",
        schema |-> [startDate |-> "string", endDate |-> "string",
                    limit |-> "number", days |-> "none"],
        dimension |-> "sessionPrimaryChannelGroup"],
       [name |-> "ga_landing_pages_top",
        schema |-> [startDate |-> "string", endDate |-> "string",
                    limit |-> "number", days |-> "none"],
        dimension |-> "landingPagePlusQueryString"],
       [name |-> "ga_daily_trend",
        schema |-> [startDate |-> "string", endDate |-> "string",
                    limit |-> "none", days |-> "number"],
        dimension |-> "date"] >>

ToolNames == {TOOLS[i].name : i \in 1..Len(TOOLS)}

\* TOOLS.find((t) => t.name === name): index of the first match, 0 if none
FindFrom(name, i) ==
    IF \E k \in i..Len(TOOLS) : TOOLS[k].name = name
    THEN CHOOSE k \in i..Len(TOOLS) :
            /\ TOOLS[k].name = name
            /\ \A j \in i..(k - 1) : TOOLS[j].name # name
    ELSE 0

\* a lookup that falls back to the first tool
ToolFind_fallback(name) == IF FindFrom(name, 1) = 0 THEN 1 ELSE FindFrom(name, 1)

ToolFind(name) == FindFrom(name, 1)

\* listTools(): name and schema of every tool, in registry order
listTools == [i \in 1..Len(TOOLS) |-> [name |-> TOOLS[i].name,
                                         schema |-> TOOLS[i].schema]]

\* an assertEnv that never throws
assertEnv_missing == FALSE

\* assertEnv(): TRUE when it throws
assertEnvThrows == GA4_PROPERTY_ID = ""

\* the request runReport hands to gaClient.runReport
runReportRequest(dimension, startDate, endDate, limit, orderByMetric, orderDesc) ==
    [property |-> "properties/" \o GA4_PROPERTY_ID,
     startDate |-> startDate,
     endDate |-> endDate,
     dimensions |-> <<dimension>>,
     metrics |-> <<"sessions", "activeUsers">>,
     limit |-> StringOf(Coalesce(limit, Num(20))),
     orderBy |-> IF Falsy(orderByMetric) THEN "" ELSE orderByMetric.s,
     desc |-> orderDesc]

\* the report request each handler builds from its arguments
HandlerRequest(name, args) ==
    CASE name = "ga_channel_summary" ->
            runReportRequest("sessionPrimaryChannelGroup",
                             JsOr(args.startDate, Str("7daysAgo")),
                             JsOr(args.endDate, Str("yesterday")),
                             Coalesce(args.limit, Num(50)),
                             Str("sessions"), TRUE)
      [] name = "ga_landing_pages_top" ->
            runReportRequest("landingPagePlusQueryString",
                             JsOr(args.startDate, Str("30daysAgo")),
                             JsOr(args.endDate, Str("yesterday")),
                             Coalesce(args.limit, Num(20)),
                             Str("sessions"), TRUE)
      [] OTHER ->
            runReportRequest("date",
                             JsOr(args.startDate,
                                  Str(StringOf(Coalesce(args.days, Num(30)))
                                      \o "daysAgo")),
                             JsOr(args.endDate, Str("yesterday")),
                             Num(1000),
                             NULL, FALSE)

\* yyyymmddToIso on the date strings of the model
yyyymmddToIso(v) ==
    CASE v = Str("20260101") -> Str("2026-01-01")
      [] v = Str("20260102") -> Str("2026-01-02")
      [] v = Str("20260103") -> Str("2026-01-03")
      [] OTHER -> v

\* position of a date string in the order of the > operator on strings
DateRank(v) ==
    CASE v = Str("2026-01-01") -> 1
      [] v = Str("2026-01-02") -> 2
      [] v = Str("2026-01-03") -> 3
      [] OTHER -> 0

\* rows.sort((a, b) => (a.date > b.date ? 1 : -1)) on rows of distinct dates
RECURSIVE SortByDate(_)
SortByDate(rows) ==
    IF rows = <<>> THEN <<>>
    ELSE LET m == CHOOSE i \in 1..Len(rows) :
                    \A j \in 1..Len(rows) :
                        DateRank(rows[i].dim) <= DateRank(rows[j].dim)
             rest == [k \in 1..(Len(rows) - 1) |->
                        IF k < m THEN rows[k] ELSE rows[k + 1]]
         IN <<rows[m]>> \o SortByDate(rest)

\* server.js 124-128, 167-171, 201-205: one output row of a handler; dim is
\* the field the handler names channel, landingPage or date
JsRow(name, r) ==
    [dim |-> IF name = "ga_daily_trend"
             THEN yyyymmddToIso(ValueAt(r.dimensionValues, 1))
             ELSE JsOr(ValueAt(r.dimensionValues, 1), Str("(not set)")),
     sessions |-> Number(JsOr(ValueAt(r.metricValues, 1), Num(0))),
     activeUsers |-> Number(JsOr(ValueAt(r.metricValues, 2), Num(0)))]

JsRows(name, res) ==
    LET rows == OrEmpty(res.rows)
        mapped == [i \in 1..Len(rows) |-> JsRow(name, rows[i])]
    IN IF name = "ga_daily_trend" THEN SortByDate(mapped) ELSE mapped

\* rows.reduce(...) of tool_channel_summary
RECURSIVE Totals(_)
Totals(rows) ==
    IF rows = <<>> THEN [sessions |-> Num(0), activeUsers |-> Num(0)]
    ELSE LET acc == Totals(SubSeq(rows, 1, Len(rows) - 1))
             cur == rows[Len(rows)]
         IN [sessions |-> JsAdd(acc.sessions, cur.sessions),
             activeUsers |-> JsAdd(acc.activeUsers, cur.activeUsers)]

NoTotals == [sessions |-> UNDEF, activeUsers |-> UNDEF]

\* the object a handler returns, given its request and the backend response
HandlerOut(name, req, res) ==
    [report |-> CASE name = "ga_channel_summary" -> "channel_summary"
                  [] name = "ga_landing_pages_top" -> "landing_pages_top"
                  [] OTHER -> "daily_trend",
     propertyId |-> GA4_PROPERTY_ID,
     dateRange |-> [startDate |-> req.startDate, endDate |-> req.endDate],
     totals |-> IF name = "ga_channel_summary"
                THEN Totals(JsRows(name, res)) ELSE NoTotals,
     rows |-> JsRows(name, res)]

(***************************************************************************)
(* server.mjs and part_000: the normalizers.                               *)
(***************************************************************************)
\* toNumber(v)
toNumber(v) ==
    IF v.t \in {"undefined", "null"} THEN Num(0)
    ELSE IF IsFinite(Number(v)) THEN Number(v) ELSE Num(0)

\* (resp.dimensionHeaders ?? []).map((h) => h.name || "")
HeaderNames(headers) ==
    LET hs == OrEmpty(headers)
    IN [i \in 1..Len(hs) |-> JsOr(hs[i], Str("")).s]

\* the last position of a name in a header list (a later write to the same
\* key of an object replaces the earlier one)
LastIndex(names, k) ==
    CHOOSE i \in 1..Len(names) :
        names[i] = k /\ \A j \in (i + 1)..Len(names) : names[j] # k

Range(f) == {f[i] : i \in 1..Len(f)}

\* o[k] of an object
Prop(o, k) == IF k \in DOMAIN o THEN o[k] ELSE UNDEF

\* a pivot that writes a field only when the row holds a value for it
KVRow_skipMissing(dimHeaders, metHeaders, r) ==
    [k \in {dimHeaders[i] : i \in {j \in 1..Len(dimHeaders) :
                ValueAt(r.dimensionValues, j).t = "str"}}
        \cup {metHeaders[i] : i \in {j \in 1..Len(metHeaders) :
                ValueAt(r.metricValues, j).t = "str"}} |->
        IF k \in Range(metHeaders)
        THEN toNumber(ValueAt(r.metricValues, LastIndex(metHeaders, k)))
        ELSE Coalesce(ValueAt(r.dimensionValues, LastIndex(dimHeaders, k)),
                      Str(""))]

\* runReportKV: one object of the pivot, keyed by header name
KVRow(dimHeaders, metHeaders, r) ==
    [k \in Range(dimHeaders) \cup Range(metHeaders) |->
        IF k \in Range(metHeaders)
        THEN toNumber(ValueAt(r.metricValues, LastIndex(metHeaders, k)))
        ELSE Coalesce(ValueAt(r.dimensionValues, LastIndex(dimHeaders, k)),
                      Str(""))]

\* runReportKV applied to the response of gaClient.runReport
runReportKV(resp) ==
    LET dimHeaders == HeaderNames(resp.dimensionHeaders)
        metHeaders == HeaderNames(resp.metricHeaders)
        rows == OrEmpty(resp.rows)
    IN [rows |-> [i \in 1..Len(rows) |-> KVRow(dimHeaders, metHeaders, rows[i])],
        dimHeaders |-> dimHeaders,
        metHeaders |-> metHeaders]

\* runReport of server.mjs 49-80: rows as {dim, met} arrays
MjsRunReport(resp) ==
    LET rows == OrEmpty(resp.rows)
    IN [i \in 1..Len(rows) |->
          [dim |-> LET d == OrEmpty(rows[i].dimensionValues)
                   IN [j \in 1..Len(d) |-> Coalesce(d[j], Str(""))],
           met |-> LET m == OrEmpty(rows[i].metricValues)
                   IN [j \in 1..Len(m) |-> toNumber(m[j])]]]

\* arr[i] of a plain array, i counted from 1
At(arr, i) == IF i > Len(arr) THEN UNDEF ELSE arr[i]

\* ga_daily_trend of the three SDK variants: the rows it reports
SdkDailyTrendRows(v, resp) ==
    LET mapped ==
          IF v = "mjs_v1"
          THEN LET rows == MjsRunReport(resp)
               IN [i \in 1..Len(rows) |->
                     [dim |-> yyyymmddToIso(At(rows[i].dim, 1)),
                      sessions |-> Coalesce(At(rows[i].met, 1), Num(0)),
                      activeUsers |-> Coalesce(At(rows[i].met, 2), Num(0))]]
          ELSE LET rows == runReportKV(resp).rows
               IN [i \in 1..Len(rows) |->
                     [dim |-> yyyymmddToIso(Prop(rows[i], "date")),
                      sessions |-> JsOr(Prop(rows[i], "sessions"), Num(0)),
                      activeUsers |-> JsOr(Prop(rows[i], "activeUsers"), Num(0)),
                      keyEvents |-> JsOr(Prop(rows[i], "keyEvents"), Num(0))]]
    IN SortByDate(mapped)

\* JSON.stringify(obj, null, 2): the text is not the object
JSONstringify(obj) == [json |-> obj]

\* jsonText(obj)
jsonText(obj) == <<[type |-> "text", text |-> JSONstringify(obj)]>>

\* formatErr(e): the message of e, cut after 800 characters plus "..."
formatErr(e) ==
    IF e.len > 800 THEN [text |-> e.text, len |-> 803] ELSE e

(***************************************************************************)
(* Requests, responses and the inputs of the gateway.                      *)
(***************************************************************************)
NoId == "<absent>"
NullId == "<null>"
RpcIds == {"id-1", "id-2"}

Msg(text, len) == [text |-> text, len |-> len]
NoMsg == Msg("", 0)

NoArgs == [startDate |-> UNDEF, endDate |-> UNDEF, limit |-> UNDEF, days |-> UNDEF]

\* the argument objects a caller sends
ArgInputs ==
    { NoArgs,
      [NoArgs EXCEPT !.startDate = Str("30daysAgo"), !.endDate = Str("today"),
                     !.limit = Num(5)],
      [NoArgs EXCEPT !.limit = Str("abc")],
      [NoArgs EXCEPT !.days = Str("abc")] }

NameInputs == ToolNames \cup {"ga_unknown"}

NoBody == [tool |-> "", jsonrpc |-> "", id |-> NoId, method |-> "",
           name |-> "", arguments |-> NoArgs]

\* flat shape {tool, arguments}
FlatBodies ==
    {[NoBody EXCEPT !.tool = n, !.arguments = a] :
        n \in NameInputs, a \in ArgInputs}

\* correlated shape {jsonrpc: "2.0", id, method, params: {name, arguments}}
CallBodies ==
    {[NoBody EXCEPT !.jsonrpc = "2.0", !.id = i, !.method = "tools/call",
                    !.name = n, !.arguments = a] :
        i \in RpcIds, n \in NameInputs, a \in ArgInputs}

OtherRpcBodies ==
    {[NoBody EXCEPT !.jsonrpc = "2.0", !.id = i, !.method = m] :
        i \in RpcIds, m \in {"initialize", "tools/list", "resources/list"}}

\* neither shape: no tool and no jsonrpc "2.0"
BadBodies == {[NoBody EXCEPT !.jsonrpc = "1.0", !.id = "id-1"]}

Bodies == FlatBodies \cup CallBodies \cup OtherRpcBodies \cup BadBodies

IsFlat(body) == body.tool # ""
IsRpc(body) == body.tool = "" /\ body.jsonrpc = "2.0"

NoResult == [kind |-> "none"]
NoResp == [status |-> 0, form |-> "none", id |-> NoId, code |-> 0,
           message |-> NoMsg, result |-> NoResult]

Resp(status, form, id, code, message, result) ==
    [status |-> status, form |-> form, id |-> id, code |-> code,
     message |-> message, result |-> result]

NoCall == [issued |-> FALSE]
NoRes == [dimensionHeaders |-> ABSENT, metricHeaders |-> ABSENT, rows |-> ABSENT]

Idle == [pc |-> "idle", path |-> "", header |-> "", query |-> "", token |-> "",
         body |-> NoBody, handler |-> "", hargs |-> NoArgs, call |-> NoCall,
         backend |-> "none", bres |-> NoRes, berr |-> NoMsg,
         resp |-> NoResp, sent |-> 0, trace |-> <<>>]

\* credentials a caller may present ("" is: not presented)
GoodKey == "key-1"
GoodToken == "token-1"
HeaderInputs == {"", GoodKey, "wrong"}
QueryInputs == {"", GoodKey}
TokenInputs == {"", GoodToken, "wrong"}

\* what the backend may answer to a report call of the gateway
Cell(d, m1, m2) == [dimensionValues |-> Arr(<<Str(d)>>),
                     metricValues |-> Arr(<<Str(m1), Str(m2)>>)]

BackendAnswers(request) ==
    LET dimension == request.dimensions[1]
        hd == [dimensionHeaders |-> Arr(<<Str(dimension)>>),
               metricHeaders |->
                  Arr([i \in 1..Len(request.metrics) |-> Str(request.metrics[i])])]
        d1 == IF dimension = "date" THEN "20260102" ELSE "Organic Search"
        d2 == IF dimension = "date" THEN "20260101" ELSE "Direct"
    IN { hd @@ [rows |-> ABSENT],
         hd @@ [rows |-> Arr(<<Cell(d1, "7", "7"), Cell(d2, "42", "0")>>)] }

\* the message of a backend error: short, or longer than 800 characters
BackendErrors == {Msg("backend error", 40), Msg("backend error", 900)}

(***************************************************************************)
(* The gateway.                                                            *)
(***************************************************************************)
\* one invocation moves to a new position; the positions it visits are kept
Goto(cur, pcs) == [cur EXCEPT !.pc = pcs[Len(pcs)], !.trace = @ \o pcs]

\* res.json(...) / res.send(...): the response goes out
Send(cur, pcs, resp) ==
    [Goto(cur, pcs) EXCEPT !.resp = resp, !.sent = @ + 1]

InitGateway ==
    /\ variant \in Variants
    /\ GA4_PROPERTY_ID \in {"", "423169216"}
    /\ MCP_API_KEY \in {"", GoodKey}
    /\ MCP_PATH_TOKEN \in IF variant = "server_js" THEN {""} ELSE {"", GoodToken}
    /\ proc = "boot"
    /\ inv = [r \in Reqs |-> Idle]

\* top-level code of each file: exit(1) or listen
Startup ==
    /\ proc = "boot"
    /\ proc' = CASE variant = "mjs_v1" /\ GA4_PROPERTY_ID = "" -> "exited"
                 [] variant = "mjs_v2" /\ GA4_PROPERTY_ID = "" -> "exited"
                 [] variant = "mjs_v2" /\ MCP_PATH_TOKEN = "" /\ MCP_API_KEY = ""
                      -> "exited"
                 [] OTHER -> "serving"
    /\ UNCHANGED <<variant, GA4_PROPERTY_ID, MCP_API_KEY, MCP_PATH_TOKEN, inv>>

\* a request arrives: GET /health or POST /mcp[/token]; it presents a key in
\* the header, a key in the query (server.js), a token in the path (SDK
\* variants), a wrong header with a good query key, or nothing
Receive(r) ==
    /\ proc = "serving"
    /\ inv[r].pc = "idle"
    /\ \E path \in {"/health", "/mcp"}, h \in HeaderInputs,
          q \in QueryInputs, t \in TokenInputs :
        /\ path = "/health" => h = "" /\ q = "" /\ t = ""
        /\ h = GoodKey => q = "" /\ t = ""
        /\ t # "" => h = ""
        /\ variant = "server_js" => t = ""
        /\ variant # "server_js" => q = ""
        /\ inv' = [inv EXCEPT ![r] =
                     [Goto(@, <<"Received">>) EXCEPT
                        !.path = path, !.header = h, !.query = q, !.token = t]]
    /\ UNCHANGED <<variant, GA4_PROPERTY_ID, MCP_API_KEY, MCP_PATH_TOKEN, proc>>

\* configErrors() of part_000
configErrors ==
    (IF GA4_PROPERTY_ID = "" THEN <<"Missing env: GA4_PROPERTY_ID">> ELSE <<>>)
    \o (IF MCP_PATH_TOKEN = "" /\ MCP_API_KEY = ""
        THEN <<"Missing auth env: set MCP_PATH_TOKEN or MCP_API_KEY">>
        ELSE <<>>)

\* app.get("/health")
Health(r) ==
    /\ inv[r].pc = "Received"
    /\ inv[r].path = "/health"
    /\ inv' = [inv EXCEPT ![r] =
                 IF variant = "part_000" /\ configErrors # <<>>
                 THEN Send(@, <<"Served">>,
                           Resp(500, "text", NoId, 0,
                                Msg(configErrors[1], 40), NoResult))
                 ELSE Send(@, <<"Served">>,
                           Resp(200, "text", NoId, 0, Msg("ok", 2), NoResult))]
    /\ UNCHANGED <<variant, GA4_PROPERTY_ID, MCP_API_KEY, MCP_PATH_TOKEN, proc>>

\* server.js 37-51: the API key middleware
AuthMiddleware(r) ==
    /\ variant = "server_js"
    /\ inv[r].pc = "Received"
    /\ inv[r].path = "/mcp"
    /\ LET key == IF inv[r].header # "" THEN inv[r].header ELSE inv[r].query
       IN inv' = [inv EXCEPT ![r] =
            IF MCP_API_KEY = ""
            THEN Send(@, <<"Failed">>,
                      Resp(500, "error", NoId, 0,
                           Msg("MCP_API_KEY is not set", 40), NoResult))
            ELSE IF key # MCP_API_KEY
            THEN Send(@, <<"Failed">>,
                      Resp(401, "error", NoId, 0, Msg("unauthorized", 12), NoResult))
            ELSE Goto(@, <<"Authorized">>)]
    /\ UNCHANGED <<variant, GA4_PROPERTY_ID, MCP_API_KEY, MCP_PATH_TOKEN, proc>>

\* tool.handler(args) up to its first await: assertEnv, then the backend call
CallHandler(cur, i, args) ==
    LET started == [cur EXCEPT !.handler = TOOLS[i].name, !.hargs = args]
    IN IF assertEnvThrows
       THEN \* thrown inside the try of app.post: res.status(500).json({error})
            Send(started, <<"Executing", "Failed">>,
                 Resp(500, "error", NoId, 0,
                      Msg("GA4_PROPERTY_ID is not set", 40), NoResult))
       ELSE [Goto(started, <<"Executing">>) EXCEPT
               !.call = [issued |-> TRUE,
                         request |-> HandlerRequest(TOOLS[i].name, args)],
               !.backend = "pending"]

\* server.js 280-347: app.post("/mcp") up to the first await
Dispatch(cur, body) ==
    LET c == [cur EXCEPT !.body = body]
    IN IF body.tool # ""
       THEN IF ToolFind(body.tool) = 0
            THEN Send(c, <<"Failed">>,
                      Resp(404, "error", NoId, 0, Msg("tool not found", 14), NoResult))
            ELSE CallHandler(c, ToolFind(body.tool), body.arguments)
       ELSE IF body.jsonrpc # "2.0"
       THEN Send(c, <<"Failed">>,
                 Resp(400, "error", NoId, 0, Msg("invalid jsonrpc", 15), NoResult))
       ELSE IF body.method = "initialize"
       THEN Send(c, <<"Completed">>,
                 Resp(200, "rpc_result", body.id, 0, NoMsg, [kind |-> "serverInfo"]))
       ELSE IF body.method = "tools/list"
       THEN Send(c, <<"Completed">>,
                 Resp(200, "rpc_result", body.id, 0, NoMsg,
                      [kind |-> "tools", tools |-> listTools]))
       ELSE IF body.method = "tools/call"
       THEN IF ToolFind(body.name) = 0
            THEN Send(c, <<"Failed">>,
                      Resp(200, "rpc_error", body.id, -32601,
                           Msg("tool not found", 14), NoResult))
            ELSE CallHandler(c, ToolFind(body.name), body.arguments)
       ELSE Send(c, <<"Failed">>,
                 Resp(200, "rpc_error", body.id, -32601,
                      Msg("method not found", 16), NoResult))

PostMcp(r) ==
    /\ variant = "server_js"
    /\ inv[r].pc = "Authorized"
    /\ \E body \in Bodies : inv' = [inv EXCEPT ![r] = Dispatch(@, body)]
    /\ UNCHANGED <<variant, GA4_PROPERTY_ID, MCP_API_KEY, MCP_PATH_TOKEN, proc>>

\* the backend answers the report call
BackendAnswer(r) ==
    /\ inv[r].pc = "Executing"
    /\ inv[r].backend = "pending"
    /\ \E res \in BackendAnswers(inv[r].call.request) :
          inv' = [inv EXCEPT ![r].backend = "answered", ![r].bres = res]
    /\ UNCHANGED <<variant, GA4_PROPERTY_ID, MCP_API_KEY, MCP_PATH_TOKEN, proc>>

\* the backend call fails (network, quota, invalid field)
BackendFail(r) ==
    /\ inv[r].pc = "Executing"
    /\ inv[r].backend = "pending"
    /\ \E e \in BackendErrors :
          inv' = [inv EXCEPT ![r].backend = "failed", ![r].berr = e]
    /\ UNCHANGED <<variant, GA4_PROPERTY_ID, MCP_API_KEY, MCP_PATH_TOKEN, proc>>

\* a delivery that answers both call shapes with the bare object
Deliver_bare(cur) ==
    IF cur.backend = "failed"
    THEN Send(cur, <<"Failed">>,
              Resp(500, "error", NoId, 0, cur.berr, NoResult))
    ELSE Send(cur, <<"Completed">>,
              Resp(200, "raw", NoId, 0, NoMsg,
                   [kind |-> "object",
                    out |-> HandlerOut(cur.handler, cur.call.request, cur.bres)]))

\* server.js: the rest of the handler and of app.post after the await
Deliver(cur) ==
    IF cur.backend = "failed"
    THEN \* catch (e): res.status(500).json({ error: msg })
         Send(cur, <<"Failed">>,
              Resp(500, "error", NoId, 0, cur.berr, NoResult))
    ELSE LET out == HandlerOut(cur.handler, cur.call.request, cur.bres)
         IN IF cur.body.tool # ""
            THEN Send(cur, <<"Completed">>,
                      Resp(200, "raw", NoId, 0, NoMsg,
                           [kind |-> "object", out |-> out]))
            ELSE Send(cur, <<"Completed">>,
                      Resp(200, "rpc_result", cur.body.id, 0, NoMsg,
                           [kind |-> "content", content |-> jsonText(out)]))

Finish(r) ==
    /\ variant = "server_js"
    /\ inv[r].pc = "Executing"
    /\ inv[r].backend \in {"answered", "failed"}
    /\ inv' = [inv EXCEPT ![r] = Deliver(@)]
    /\ UNCHANGED <<variant, GA4_PROPERTY_ID, MCP_API_KEY, MCP_PATH_TOKEN, proc>>

(***************************************************************************)
(* The SDK variants: server.mjs (both halves) and part_000.  The MCP SDK   *)
(* (McpServer, StreamableHTTPServerTransport) is a library: what it does   *)
(* inside transport.handleRequest is an input of the model.                *)
(***************************************************************************)
\* the names registered with mcp.tool(...)
SdkTools(v) ==
    IF v = "mjs_v1"
    THEN {"ga_channel_summary", "ga_landing_page_ranking", "ga_daily_trend"}
    ELSE {"ga_metadata_search", "ga_kpi_overview", "ga_channel_summary_plus",
          "ga_channel_summary_compare", "ga_landing_page_performance",
          "ga_daily_trend", "ga_daily_anomalies", "ga_campaign_performance",
          "ga_device_breakdown", "ga_country_breakdown", "ga_new_vs_returning",
          "ga_top_pages", "ga_top_events", "ga_funnel_basic"}

\* isAuthorized(req) of the three files
isAuthorized(v, token, header) ==
    CASE v = "mjs_v1" ->
            \/ MCP_PATH_TOKEN # "" /\ token = MCP_PATH_TOKEN
            \/ MCP_API_KEY # "" /\ header # "" /\ header = MCP_API_KEY
            \/ ~(MCP_PATH_TOKEN # "" \/ MCP_API_KEY # "")
      [] v = "mjs_v2" ->
            \/ MCP_PATH_TOKEN # "" /\ token = MCP_PATH_TOKEN
            \/ MCP_API_KEY # "" /\ header # "" /\ header = MCP_API_KEY
      [] OTHER ->
            /\ ~(MCP_PATH_TOKEN = "" /\ MCP_API_KEY = "")
            /\ \/ MCP_PATH_TOKEN # "" /\ token = MCP_PATH_TOKEN
               \/ MCP_API_KEY # "" /\ header # "" /\ header = MCP_API_KEY

\* app.post("/mcp/:token?") up to the call of transport.handleRequest
PostMcpSdk(r) ==
    /\ variant \in SdkVariants
    /\ inv[r].pc = "Received"
    /\ inv[r].path = "/mcp"
    /\ inv' = [inv EXCEPT ![r] =
         IF variant = "part_000" /\ configErrors # <<>>
         THEN Send(@, <<"Failed">>,
                   Resp(500, "error", NoId, 0, Msg(configErrors[1], 40), NoResult))
         ELSE IF ~isAuthorized(variant, @.token, @.header)
         THEN Send(@, <<"Failed">>,
                   Resp(401, "error", NoId, 0, Msg("unauthorized", 12), NoResult))
         ELSE Goto(@, <<"Authorized">>)]
    /\ UNCHANGED <<variant, GA4_PROPERTY_ID, MCP_API_KEY, MCP_PATH_TOKEN, proc>>

\* the bodies handed to the transport
SdkBodies ==
    {b \in CallBodies \cup OtherRpcBodies :
        b.name \in {"", "ga_daily_trend", "ga_unknown"}}

\* the arguments ga_daily_trend receives: its zod shape fills the defaults
\* of startDate and endDate and keeps no other key
SdkDailyTrendArgs(args) ==
    [startDate |-> IF args.startDate = UNDEF THEN Str("30daysAgo")
                   ELSE args.startDate,
     endDate |-> IF args.endDate = UNDEF THEN Str("yesterday")
                 ELSE args.endDate,
     limit |-> UNDEF,
     days |-> UNDEF]

\* the request ga_daily_trend hands to gaClient.runReport
SdkDailyTrendRequest(v, args) ==
    [property |-> "properties/" \o GA4_PROPERTY_ID,
     startDate |-> args.startDate,
     endDate |-> args.endDate,
     dimensions |-> <<"date">>,
     metrics |-> IF v = "mjs_v1" THEN <<"sessions", "activeUsers">>
                 ELSE <<"sessions", "activeUsers", "keyEvents">>,
     limit |-> IF v = "part_000" THEN "2000" ELSE "1000",
     orderBy |-> "",
     desc |-> TRUE]

\* transport.handleRequest(req, res, req.body): the SDK runs the handler
\* registered under the name, answers by itself, or throws
TransportHandle(r) ==
    /\ variant \in SdkVariants
    /\ inv[r].pc = "Authorized"
    /\ \E body \in SdkBodies, outcome \in {"tool", "sdk", "throw"} :
        /\ outcome = "tool" =>
              body.method = "tools/call" /\ body.name \in SdkTools(variant)
        /\ inv' = [inv EXCEPT ![r] =
             CASE outcome = "tool" ->
                    \* the SDK parses the arguments with the tool's zod schema
                    [Goto([@ EXCEPT !.body = body],
                          <<"Validated", "Executing">>) EXCEPT
                       !.handler = body.name,
                       !.hargs = SdkDailyTrendArgs(body.arguments),
                       !.call = [issued |-> TRUE,
                                 request |-> SdkDailyTrendRequest(
                                    variant, SdkDailyTrendArgs(body.arguments))],
                       !.backend = "pending"]
               [] outcome = "sdk" ->
                    Send([@ EXCEPT !.body = body],
                         <<IF body.method = "tools/call" THEN "Failed"
                                                        ELSE "Completed">>,
                         Resp(200, "sdk", body.id, 0, NoMsg, NoResult))
               [] OTHER ->
                    \* catch (err): 500 with id null, headers not yet sent
                    Send([@ EXCEPT !.body = body], <<"Failed">>,
                         Resp(500, "rpc_error", NullId, -32603,
                              Msg("Internal error", 14), NoResult))]
    /\ UNCHANGED <<variant, GA4_PROPERTY_ID, MCP_API_KEY, MCP_PATH_TOKEN, proc>>

\* the rest of ga_daily_trend after the await; the SDK sends what it returns
DeliverSdk(v, cur) ==
    IF cur.backend = "failed"
    THEN IF v = "part_000"
         THEN \* catch (e) of the handler: a result that holds the error text
              Send(cur, <<"Completed">>,
                   Resp(200, "sdk_result", cur.body.id, 0, NoMsg,
                        [kind |-> "content",
                         content |-> jsonText([report |-> "daily_trend",
                                               error |-> formatErr(cur.berr)])]))
         ELSE \* the rejection reaches the SDK
              Send(cur, <<"Failed">>,
                   Resp(200, "sdk_error", cur.body.id, 0, cur.berr, NoResult))
    ELSE Send(cur, <<"Completed">>,
              Resp(200, "sdk_result", cur.body.id, 0, NoMsg,
                   [kind |-> "content",
                    content |-> jsonText(
                       [report |-> "daily_trend",
                        propertyId |-> GA4_PROPERTY_ID,
                        dateRange |->
                           [startDate |-> cur.call.request.startDate,
                            endDate |-> cur.call.request.endDate],
                        rows |-> SdkDailyTrendRows(v, cur.bres)])]))

FinishSdk(r) ==
    /\ variant \in SdkVariants
    /\ inv[r].pc = "Executing"
    /\ inv[r].backend \in {"answered", "failed"}
    /\ inv' = [inv EXCEPT ![r] = DeliverSdk(variant, @)]
    /\ UNCHANGED <<variant, GA4_PROPERTY_ID, MCP_API_KEY, MCP_PATH_TOKEN, proc>>

IdleReport ==
    /\ rq = [dimensions |-> <<>>, metrics |-> <<>>]
    /\ raw = NoRes
    /\ kv = <<>>
    /\ js = <<>>
    /\ rp = "idle"

\* no derived report under way
IdlePeriod == pd = [pc |-> "idle"]
IdleCompare == cm = [pc |-> "idle"]
IdleAnomaly == an = [pc |-> "idle"]
IdleFunnel == fn = [pc |-> "idle"]
IdleShared == tp = [pc |-> "idle"]

Init ==
    /\ InitGateway /\ IdleReport /\ IdlePeriod /\ IdleCompare /\ IdleAnomaly
    /\ IdleFunnel /\ IdleShared

Next ==
    \/ Startup /\ UNCHANGED <<rpVars, drVars, exVars>>
    \/ \E r \in Reqs : Receive(r) /\ UNCHANGED <<rpVars, drVars, exVars>>
    \/ \E r \in Reqs : Health(r) /\ UNCHANGED <<rpVars, drVars, exVars>>
    \/ \E r \in Reqs : AuthMiddleware(r) /\ UNCHANGED <<rpVars, drVars, exVars>>
    \/ \E r \in Reqs : PostMcp(r) /\ UNCHANGED <<rpVars, drVars, exVars>>
    \/ \E r \in Reqs : PostMcpSdk(r) /\ UNCHANGED <<rpVars, drVars, exVars>>
    \/ \E r \in Reqs : TransportHandle(r) /\ UNCHANGED <<rpVars, drVars, exVars>>
    \/ \E r \in Reqs : BackendAnswer(r) /\ UNCHANGED <<rpVars, drVars, exVars>>
    \/ \E r \in Reqs : BackendFail(r) /\ UNCHANGED <<rpVars, drVars, exVars>>
    \/ \E r \in Reqs : Finish(r) /\ UNCHANGED <<rpVars, drVars, exVars>>
    \/ \E r \in Reqs : FinishSdk(r) /\ UNCHANGED <<rpVars, drVars, exVars>>

Spec == Init /\ [][Next]_vars

(***************************************************************************)
(* SpecReport: the normalizers on every raw response within the bounds.    *)
(***************************************************************************)
\* the field names the callers of runReportKV pass, in their order
DimNames == <<"date", "sessionDefaultChannelGroup", "deviceCategory">>
MetNames == <<"sessions", "keyEvents", "activeUsers">>

\* the report requests: the first dimensions and the first metrics of these
\* lists, at least one metric as in every caller
ReportRequests ==
    {[dimensions |-> SubSeq(DimNames, 1, d), metrics |-> SubSeq(MetNames, 1, m)] :
        d \in 0..MaxDims, m \in 1..MaxMets}

\* what the first cell of a value list may hold, and the cells after it; a
\* cell that is missing (list absent or short) reads as undefined
DimRaw == {Str("20260102"), NULL}
DimRest == {Str("Direct")}
MetRaw == {NULL, Str("abc"), Str("42"), Str("Infinity"), Str("")}
MetRest == {Str("42")}

\* the value lists of at most n cells: the first cell from S, the rest from T
Cells(S, T, n) ==
    UNION {{c \in [1..k -> S \cup T] :
               /\ k > 0 => c[1] \in S
               /\ \A i \in 2..k : c[i] \in T} : k \in 0..n}

\* the raw rows: value lists absent, short or complete
RawRows(request) ==
    {[dimensionValues |-> dv, metricValues |-> mv] :
        dv \in {ABSENT} \cup
               {Arr(c) : c \in Cells(DimRaw, DimRest, Len(request.dimensions))},
        mv \in {ABSENT} \cup
               {Arr(c) : c \in Cells(MetRaw, MetRest, Len(request.metrics))}}

\* the headers of the response name the fields of the request, in its order
EchoHeaders(request) ==
    [dimensionHeaders |->
        Arr([i \in 1..Len(request.dimensions) |-> Str(request.dimensions[i])]),
     metricHeaders |->
        Arr([i \in 1..Len(request.metrics) |-> Str(request.metrics[i])]),
     rows |-> ABSENT]

InitReport ==
    /\ variant = "mjs_v2"
    /\ GA4_PROPERTY_ID = "423169216"
    /\ MCP_API_KEY = GoodKey
    /\ MCP_PATH_TOKEN = ""
    /\ proc = "serving"
    /\ inv = [r \in Reqs |-> Idle]
    /\ rq \in ReportRequests
    /\ raw = EchoHeaders(rq)
    /\ kv = <<>>
    /\ js = <<>>
    /\ rp = "pending"
    /\ IdlePeriod /\ IdleCompare /\ IdleAnomaly /\ IdleFunnel /\ IdleShared

\* the backend adds a row to its response
BackendRow ==
    /\ rp = "pending"
    /\ Len(OrEmpty(raw.rows)) < MaxRows
    /\ \E row \in RawRows(rq) :
          raw' = [raw EXCEPT !.rows = Arr(Append(OrEmpty(@), row))]
    /\ UNCHANGED <<rq, kv, js, rp>>

\* runReportKV returns
ReturnKV ==
    /\ rp = "pending"
    /\ kv' = runReportKV(raw).rows
    /\ rp' = "kv"
    /\ UNCHANGED <<rq, raw, js>>

\* the rows tool_channel_summary of server.js makes of the same response
ReturnJs ==
    /\ rp = "kv"
    /\ js' = JsRows("ga_channel_summary", raw)
    /\ rp' = "done"
    /\ UNCHANGED <<rq, raw, kv>>

NextReport ==
    \/ BackendRow /\ UNCHANGED <<gwVars, drVars, exVars>>
    \/ ReturnKV /\ UNCHANGED <<gwVars, drVars, exVars>>
    \/ ReturnJs /\ UNCHANGED <<gwVars, drVars, exVars>>

SpecReport == InitReport /\ [][NextReport]_vars

(***************************************************************************)
(* SpecPeriod: the comparison period of ga_channel_summary_compare         *)
(* (server.mjs second half, part_000).                                     *)
(***************************************************************************)
MaxN == 7

\* date expressions, by the shape of their text:
\*   DaysAgoText(ds)  the digits ds followed by "daysAgo"
\*   Lit(s)           any other text s that is no ISO date
\*   Iso(y, m, d)     YYYY-MM-DD, whether or not it names a calendar day
DaysAgoText(ds) == [k |-> "ago", digits |-> ds]
Lit(s) == [k |-> "lit", s |-> s]
Iso(y, m, d) == [k |-> "iso", y |-> y, m |-> m, d |-> d]

\* Number(m[1]) on the digits matched by (\d+)
RECURSIVE NumberOfDigits(_)
NumberOfDigits(ds) ==
    IF ds = <<>> THEN 0
    ELSE 10 * NumberOfDigits(SubSeq(ds, 1, Len(ds) - 1)) + ds[Len(ds)]

\* the decimal digits of a natural number
RECURSIVE Digits(_)
Digits(n) == IF n < 10 THEN <<n>> ELSE Digits(n \div 10) \o <<n % 10>>

\* `${n}daysAgo`; a negative n prints with its sign, "-1daysAgo"
DaysAgo(n) ==
    IF n < 0 THEN [k |-> "neg", digits |-> Digits(0 - n)]
    ELSE DaysAgoText(Digits(n))

NoRange == [resolved |-> FALSE]
Range2(startDate, endDate) ==
    [resolved |-> TRUE, startDate |-> startDate, endDate |-> endDate]

\* a resolver that takes the block ending today for every end date
computePreviousPeriod_today(startDate, endDate) ==
    IF startDate.k # "ago" THEN NoRange
    ELSE LET n == NumberOfDigits(startDate.digits)
         IN IF endDate \in {Lit("yesterday"), Lit("today")}
            THEN Range2(DaysAgo(2 * n - 1), DaysAgo(n))
            ELSE NoRange

\* a resolver that takes every end date for "yesterday"
computePreviousPeriod_anyEnd(startDate, endDate) ==
    IF startDate.k # "ago" THEN NoRange
    ELSE LET n == NumberOfDigits(startDate.digits)
         IN IF endDate = Lit("today")
            THEN Range2(DaysAgo(2 * n - 1), DaysAgo(n))
            ELSE Range2(DaysAgo(2 * n), DaysAgo(n + 1))

\* computePreviousPeriod(startDate, endDate); NoRange is null
computePreviousPeriod(startDate, endDate) ==
    IF startDate.k # "ago" THEN NoRange
    ELSE LET n == NumberOfDigits(startDate.digits)
         IN IF endDate = Lit("yesterday")
            THEN Range2(DaysAgo(2 * n), DaysAgo(n + 1))
            ELSE IF endDate = Lit("today")
            THEN Range2(DaysAgo(2 * n - 1), DaysAgo(n))
            ELSE NoRange

\* the calendar
IsLeap(y) == (y % 4 = 0 /\ y % 100 # 0) \/ y % 400 = 0
DaysInMonth(y, m) ==
    IF m = 2 THEN (IF IsLeap(y) THEN 29 ELSE 28)
    ELSE IF m \in {4, 6, 9, 11} THEN 30 ELSE 31
ValidDate(y, m, d) == m \in 1..12 /\ d \in 1..DaysInMonth(y, m)

\* the calendar day of year y, month m and a day number that may run past
\* the end of the month (Date carries the excess into the next month)
CarryDay(y, m, d) ==
    IF d <= DaysInMonth(y, m) THEN [y |-> y, m |-> m, d |-> d]
    ELSE IF m = 12 THEN [y |-> y + 1, m |-> 1, d |-> d - DaysInMonth(y, m)]
    ELSE [y |-> y, m |-> m + 1, d |-> d - DaysInMonth(y, m)]

\* the day before a calendar day
PrevDay(t) ==
    IF t.d > 1 THEN [t EXCEPT !.d = @ - 1]
    ELSE IF t.m > 1 THEN [y |-> t.y, m |-> t.m - 1, d |-> DaysInMonth(t.y, t.m - 1)]
    ELSE [y |-> t.y - 1, m |-> 12, d |-> 31]

\* the time zones the process may run in: local time equal to, ahead of or
\* behind UTC
TimeZones == {"UTC", "Asia/Tokyo", "America/New_York"}

NoDate == [valid |-> FALSE]

\* new Date(iso): midnight UTC of the day; Invalid Date for a month outside
\* 1..12 or a day outside 1..31.  A day 29..31 that the month does not have
\* is an illegal element value: the engine either rejects it or carries it
\* into the next month (carries).
NewDate(iso, carries) ==
    IF iso.m \notin 1..12 \/ iso.d \notin 1..31 THEN NoDate
    ELSE IF iso.d > DaysInMonth(iso.y, iso.m) /\ ~carries THEN NoDate
    ELSE [valid |-> TRUE, utc |-> CarryDay(iso.y, iso.m, iso.d)]

\* the local calendar day of a Date that is midnight UTC
LocalDay(date, tz) ==
    IF tz = "America/New_York" THEN PrevDay(date.utc) ELSE date.utc

\* shiftIsoYear(iso, deltaYears): setFullYear, getFullYear, getMonth and
\* getDate work on the local day
shiftIsoYear(iso, deltaYears, tz, carries) ==
    LET date == NewDate(iso, carries)
    IN IF ~date.valid THEN NULL
       ELSE LET l == LocalDay(date, tz)
                t == CarryDay(l.y + deltaYears, l.m, l.d)
            IN Iso(t.y, t.m, t.d)

\* ga_channel_summary_compare up to its first await: the comparison period,
\* NoRange when the handler answers that it cannot be derived
CompareRange(v, startDate, endDate, compareMode, tz, carries) ==
    IF v = "part_000" \/ compareMode = "previous_period"
    THEN computePreviousPeriod(startDate, endDate)
    ELSE IF startDate.k = "iso" /\ endDate.k = "iso"
    THEN LET s == shiftIsoYear(startDate, 0 - 1, tz, carries)
             e == shiftIsoYear(endDate, 0 - 1, tz, carries)
         IN IF s = NULL \/ e = NULL THEN NoRange ELSE Range2(s, e)
    ELSE NoRange

\* the date expressions a caller sends
IsoInputs ==
    {Iso(2024, 2, 29), Iso(2024, 3, 1), Iso(2025, 1, 1), Iso(2025, 6, 15),
     Iso(2025, 13, 1), Iso(2025, 2, 30)}
StartInputs ==
    {DaysAgoText(Digits(n)) : n \in 0..MaxN}
    \cup {DaysAgoText(<<0, 7>>), Lit("yesterday"), Lit("last week")}
    \cup IsoInputs
EndInputs ==
    {Lit("yesterday"), Lit("today"), DaysAgoText(<<1>>)} \cup IsoInputs

\* the message of the answer when no comparison period can be derived
NotResolvable(v) ==
    IF v = "part_000"
    THEN Msg("cannot derive the previous period: give startDate as '7daysAgo'", 40)
    ELSE Msg("cannot derive the comparison period: use '7daysAgo'..'yesterday' or ISO dates", 80)

InitPeriod ==
    /\ variant \in {"mjs_v2", "part_000"}
    /\ GA4_PROPERTY_ID = "423169216"
    /\ MCP_API_KEY = GoodKey
    /\ MCP_PATH_TOKEN = ""
    /\ proc = "serving"
    /\ inv = [r \in Reqs |-> Idle]
    /\ IdleReport /\ IdleCompare /\ IdleAnomaly /\ IdleFunnel /\ IdleShared
    /\ \E s \in StartInputs, e \in EndInputs,
          mode \in {"previous_period", "previous_year"}, tz \in TimeZones :
          pd = [pc |-> "called", startDate |-> s, endDate |-> e,
                compareMode |-> mode, tz |-> tz, compareRange |-> NoRange,
                queries |-> <<>>, error |-> NoMsg]

\* the handler derives the comparison period; without one it returns the
\* error text and is done
ResolvePeriod ==
    /\ pd.pc = "called"
    /\ \E carries \in BOOLEAN :
          LET range == CompareRange(variant, pd.startDate, pd.endDate,
                                    pd.compareMode, pd.tz, carries)
          IN pd' = IF range.resolved
                   THEN [pd EXCEPT !.pc = "resolved", !.compareRange = range]
                   ELSE [pd EXCEPT !.pc = "returned",
                                   !.error = NotResolvable(variant)]

\* curr = await runReportKV({... startDate, endDate ...})
QueryCurrent ==
    /\ pd.pc = "resolved"
    /\ pd' = [pd EXCEPT !.pc = "current",
                        !.queries = Append(@, Range2(pd.startDate, pd.endDate))]

\* prev = await runReportKV({... compareRange ...})
QueryPrevious ==
    /\ pd.pc = "current"
    /\ pd' = [pd EXCEPT !.pc = "previous",
                        !.queries = Append(@, pd.compareRange)]

\* return jsonText({... dateRange, compareRange, rows ...})
ReturnCompared ==
    /\ pd.pc = "previous"
    /\ pd' = [pd EXCEPT !.pc = "returned"]

NextPeriod ==
    \/ ResolvePeriod /\ UNCHANGED <<gwVars, rpVars, cm, an, exVars>>
    \/ QueryCurrent /\ UNCHANGED <<gwVars, rpVars, cm, an, exVars>>
    \/ QueryPrevious /\ UNCHANGED <<gwVars, rpVars, cm, an, exVars>>
    \/ ReturnCompared /\ UNCHANGED <<gwVars, rpVars, cm, an, exVars>>

SpecPeriod == InitPeriod /\ [][NextPeriod]_vars

(***************************************************************************)
(* SpecCompare: ga_channel_summary_compare after the comparison period is  *)
(* known: the two reports, the merge, the sort and the cut to the limit.   *)
(***************************************************************************)
MaxGroups == 2

\* a - b and a / b on numbers; a quotient is kept as its two terms
JsSub(a, b) == Num(a.n - b.n)
JsDiv(a, b) ==
    IF b.n = 0 THEN (IF a.n = 0 THEN NaN ELSE Infinity)
    ELSE [t |-> "quot", num |-> a.n, den |-> b.n]

\* safePctChange(curr, prev)
safePctChange(curr, prev) ==
    IF Falsy(prev) THEN NULL ELSE JsDiv(JsSub(curr, prev), prev)

\* `sessionKeyEventRate:${keyEventName}`
KeyEventRate(keyEventName) == "sessionKeyEventRate:" \o keyEventName

\* baseMetricsPlus(keyEventName); "" is: no keyEventName given
baseMetricsPlus(keyEventName) ==
    <<"sessions", "activeUsers", "keyEvents", "sessionKeyEventRate">>
    \o (IF keyEventName # "" THEN <<KeyEventRate(keyEventName)>> ELSE <<>>)

\* {} : an object without properties
EmptyObject == [k \in {} |-> NULL]

\* r.sessionDefaultChannelGroup || "(not set)"
ChannelOf(r) == JsOr(Prop(r, "sessionDefaultChannelGroup"), Str("(not set)"))

\* a lookup that takes the first previous row when the channel has none
PrevOf_first(prevRows, ch) ==
    IF \E i \in 1..Len(prevRows) : ChannelOf(prevRows[i]) = ch
    THEN prevRows[CHOOSE i \in 1..Len(prevRows) :
                     /\ ChannelOf(prevRows[i]) = ch
                     /\ \A j \in (i + 1)..Len(prevRows) : ChannelOf(prevRows[j]) # ch]
    ELSE IF prevRows # <<>> THEN prevRows[1] ELSE EmptyObject

\* prevMap.get(ch) || {} : the last previous row of the channel
PrevOf(prevRows, ch) ==
    IF \E i \in 1..Len(prevRows) : ChannelOf(prevRows[i]) = ch
    THEN prevRows[CHOOSE i \in 1..Len(prevRows) :
                     /\ ChannelOf(prevRows[i]) = ch
                     /\ \A j \in (i + 1)..Len(prevRows) : ChannelOf(prevRows[j]) # ch]
    ELSE EmptyObject

\* the current / previous mapping of a merged row
Side(o) ==
    [sessions |-> JsOr(Prop(o, "sessions"), Num(0)),
     activeUsers |-> JsOr(Prop(o, "activeUsers"), Num(0)),
     keyEvents |-> JsOr(Prop(o, "keyEvents"), Num(0)),
     sessionKeyEventRate |-> Coalesce(Prop(o, "sessionKeyEventRate"), NULL)]

\* x != null
NotNullish(x) == x.t \notin {"null", "undefined"}

\* one merged row of server.mjs 629-669
MergeRowMjs(r, p, keyEventName) ==
    LET c == Side(r)
        q == Side(p)
        both == NotNullish(c.sessionKeyEventRate) /\ NotNullish(q.sessionKeyEventRate)
        extra(o) == IF keyEventName # ""
                    THEN KeyEventRate(keyEventName) :>
                            Coalesce(Prop(o, KeyEventRate(keyEventName)), NULL)
                    ELSE EmptyObject
    IN [channel |-> ChannelOf(r),
        current |-> c @@ extra(r),
        previous |-> q @@ extra(p),
        delta |->
           [sessions |-> JsSub(c.sessions, q.sessions),
            activeUsers |-> JsSub(c.activeUsers, q.activeUsers),
            keyEvents |-> JsSub(c.keyEvents, q.keyEvents),
            sessionKeyEventRate |->
               IF both THEN JsSub(c.sessionKeyEventRate, q.sessionKeyEventRate)
               ELSE NULL],
        pctChange |->
           [sessions |-> safePctChange(c.sessions, q.sessions),
            activeUsers |-> safePctChange(c.activeUsers, q.activeUsers),
            keyEvents |-> safePctChange(c.keyEvents, q.keyEvents),
            sessionKeyEventRate |->
               IF both /\ q.sessionKeyEventRate # Num(0)
               THEN JsDiv(JsSub(c.sessionKeyEventRate, q.sessionKeyEventRate),
                          q.sessionKeyEventRate)
               ELSE NULL]]

\* one merged row of part_000 605-634
MergeRowPart(r, p) ==
    LET c == Side(r)
        q == Side(p)
    IN [channel |-> ChannelOf(r),
        current |-> c,
        previous |-> q,
        delta |-> [sessions |-> JsSub(c.sessions, q.sessions),
                   sessionsPct |-> safePctChange(c.sessions, q.sessions)]]

\* curr.rows.map(...) against prevMap
Merged(v, currRows, prevRows, keyEventName) ==
    [i \in 1..Len(currRows) |->
        LET p == PrevOf(prevRows, ChannelOf(currRows[i]))
        IN IF v = "part_000" THEN MergeRowPart(currRows[i], p)
           ELSE MergeRowMjs(currRows[i], p, keyEventName)]

\* b.current.sessions || 0, the sort key
SortKey(row) == JsOr(row.current.sessions, Num(0)).n

\* a sort that puts a row before the rows of equal sessions already placed
RECURSIVE SortBySessionsDesc_unstable(_)
SortBySessionsDesc_unstable(rows) ==
    IF rows = <<>> THEN <<>>
    ELSE LET sorted == SortBySessionsDesc_unstable(SubSeq(rows, 1, Len(rows) - 1))
             x == rows[Len(rows)]
             pos == Cardinality({i \in 1..Len(sorted) : SortKey(sorted[i]) > SortKey(x)})
         IN SubSeq(sorted, 1, pos) \o <<x>> \o SubSeq(sorted, pos + 1, Len(sorted))

\* merged.sort((a, b) => (b.current.sessions || 0) - (a.current.sessions || 0)):
\* Array.prototype.sort is stable, rows of equal sessions keep their order
RECURSIVE SortBySessionsDesc(_)
SortBySessionsDesc(rows) ==
    IF rows = <<>> THEN <<>>
    ELSE LET sorted == SortBySessionsDesc(SubSeq(rows, 1, Len(rows) - 1))
             x == rows[Len(rows)]
             pos == Cardinality({i \in 1..Len(sorted) : SortKey(sorted[i]) >= SortKey(x)})
         IN SubSeq(sorted, 1, pos) \o <<x>> \o SubSeq(sorted, pos + 1, Len(sorted))

\* rows.slice(0, limit)
SliceTo(rows, limit) ==
    SubSeq(rows, 1, IF limit < Len(rows) THEN limit ELSE Len(rows))

\* the metric values of one group of a report; the rates are in percent
Profiles ==
    { [sessions |-> 0, activeUsers |-> 0, keyEvents |-> 0, rate |-> 0, rateOf |-> 0],
      [sessions |-> 10, activeUsers |-> 8, keyEvents |-> 2, rate |-> 20, rateOf |-> 10],
      [sessions |-> 10, activeUsers |-> 7, keyEvents |-> 0, rate |-> 0, rateOf |-> 0],
      [sessions |-> 4, activeUsers |-> 4, keyEvents |-> 1, rate |-> 25, rateOf |-> 25] }
PrevProfiles == {f \in Profiles : f.sessions \in {0, 4}}

\* a row of runReportKV for one channel
KvGroup(ch, f, keyEventName) ==
    [sessionDefaultChannelGroup |-> Str(ch),
     sessions |-> Num(f.sessions),
     activeUsers |-> Num(f.activeUsers),
     keyEvents |-> Num(f.keyEvents),
     sessionKeyEventRate |-> Num(f.rate)]
    @@ (IF keyEventName # ""
        THEN KeyEventRate(keyEventName) :> Num(f.rateOf) ELSE EmptyObject)

\* the reports the backend may return: at most MaxGroups groups, one row per
\* channel
Reports(channels, profiles, keyEventName) ==
    {q \in UNION {[1..k -> {KvGroup(ch, f, keyEventName) :
                              ch \in channels, f \in profiles}] : k \in 0..MaxGroups} :
        \A i, j \in 1..Len(q) : i # j => ChannelOf(q[i]) # ChannelOf(q[j])}

CurrChannels == {"Direct", "Organic Search", ""}
PrevChannels == {"Direct", "(not set)", "Referral"}

InitCompare ==
    /\ variant \in {"mjs_v2", "part_000"}
    /\ GA4_PROPERTY_ID = "423169216"
    /\ MCP_API_KEY = GoodKey
    /\ MCP_PATH_TOKEN = ""
    /\ proc = "serving"
    /\ inv = [r \in Reqs |-> Idle]
    /\ IdleReport /\ IdlePeriod /\ IdleAnomaly /\ IdleFunnel /\ IdleShared
    /\ \E keyEventName \in {"", "purchase"}, limit \in {1, 50} :
          cm = [pc |-> "resolved", keyEventName |-> keyEventName, limit |-> limit,
                curr |-> <<>>, prev |-> <<>>, calls |-> <<>>, rows |-> <<>>,
                error |-> NoMsg]

\* curr = await runReportKV(...)
CurrentReport ==
    /\ cm.pc = "resolved"
    /\ \E rows \in Reports(CurrChannels, Profiles, cm.keyEventName) :
          cm' = [cm EXCEPT !.pc = "current", !.curr = rows,
                           !.calls = Append(@, "answered")]

\* prev = await runReportKV(...)
PreviousReport ==
    /\ cm.pc = "current"
    /\ \E rows \in Reports(PrevChannels, PrevProfiles, cm.keyEventName) :
          cm' = [cm EXCEPT !.pc = "previous", !.prev = rows,
                           !.calls = Append(@, "answered")]

\* a failing call that is taken for an empty report
ReportFails_asEmpty ==
    /\ cm.pc \in {"resolved", "current"}
    /\ cm' = [cm EXCEPT !.pc = IF cm.pc = "resolved" THEN "current" ELSE "previous",
                        !.calls = Append(@, "failed")]

\* one of the two awaited runReportKV calls rejects: the handler is left at
\* the await; part_000 catches and returns {report, error: formatErr(e)}, in
\* server.mjs the rejection reaches the SDK
ReportFails ==
    /\ cm.pc \in {"resolved", "current"}
    /\ \E e \in BackendErrors :
          cm' = [cm EXCEPT !.pc = "failed",
                           !.calls = Append(@, "failed"),
                           !.error = IF variant = "part_000" THEN formatErr(e) ELSE e]

\* a merge that cuts to the limit before it sorts
MergeReports_cutFirst ==
    /\ cm.pc = "previous"
    /\ cm' = [cm EXCEPT
                !.pc = "returned",
                !.rows = SortBySessionsDesc(
                            SliceTo(Merged(variant, cm.curr, cm.prev, cm.keyEventName),
                                    cm.limit))]

\* merge, sort, cut to the limit, return
MergeReports ==
    /\ cm.pc = "previous"
    /\ cm' = [cm EXCEPT
                !.pc = "returned",
                !.rows = SliceTo(SortBySessionsDesc(
                                    Merged(variant, cm.curr, cm.prev, cm.keyEventName)),
                                 cm.limit)]

NextCompare ==
    \/ CurrentReport /\ UNCHANGED <<gwVars, rpVars, pd, an, exVars>>
    \/ PreviousReport /\ UNCHANGED <<gwVars, rpVars, pd, an, exVars>>
    \/ ReportFails /\ UNCHANGED <<gwVars, rpVars, pd, an, exVars>>
    \/ MergeReports /\ UNCHANGED <<gwVars, rpVars, pd, an, exVars>>

SpecCompare == InitCompare /\ [][NextCompare]_vars

(***************************************************************************)
(* SpecAnomaly: ga_daily_anomalies (server.mjs second half, part_000).     *)
(* The series is the column of the chosen metric after the sort by date;   *)
(* its values are counts, so every sum below is exact.  Indices are those  *)
(* of the code, counted from 0.  windowDays is z.number(), not an integer: *)
(* a number of days is kept as its whole part and whether a half follows.  *)
(***************************************************************************)
MaxSeries == 8

\* the numbers w and w + 0.5
Days(w) == [whole |-> w, half |-> FALSE]
DaysAndHalf(w) == [whole |-> w, half |-> TRUE]

\* i++
PlusOne(d) == [d EXCEPT !.whole = @ + 1]

\* i < series.length: w + 0.5 < n exactly when w < n
LessThan(d, n) == d.whole < n

\* arr.slice(start, end) for a whole start and 0 <= start <= end; slice
\* truncates its arguments to integers
Slice(arr, start, end) ==
    SubSeq(arr, start + 1, IF end.whole < Len(arr) THEN end.whole ELSE Len(arr))

\* arr.reduce((s, x) => s + x, 0)
RECURSIVE SumOf(_)
SumOf(arr) == IF arr = <<>> THEN 0 ELSE SumOf(SubSeq(arr, 1, Len(arr) - 1)) + arr[Len(arr)]

\* mean(arr) as the fraction sum / n; 0 for an empty array
Mean(arr) ==
    IF arr = <<>> THEN [sum |-> 0, n |-> 1] ELSE [sum |-> SumOf(arr), n |-> Len(arr)]

\* a deviation that divides by the number of values, not by one less
Variance_population(arr, mu) ==
    IF Len(arr) < 2 THEN [num |-> 0, den |-> 1]
    ELSE [num |-> SumOf([k \in 1..Len(arr) |->
                           (mu.n * arr[k] - mu.sum) * (mu.n * arr[k] - mu.sum)]),
          den |-> Len(arr)]

\* std(arr, mu) squared, as a fraction and in units of 1 / n^2: with
\* mu = S / n, n^2 times the sample variance sum((x - mu)^2) / (n - 1) is
\* sum((n x - S)^2) / (n - 1); 0 for fewer than two values
Variance(arr, mu) ==
    IF Len(arr) < 2 THEN [num |-> 0, den |-> 1]
    ELSE [num |-> SumOf([k \in 1..Len(arr) |->
                           (mu.n * arr[k] - mu.sum) * (mu.n * arr[k] - mu.sum)]),
          den |-> Len(arr) - 1]

\* a z-score that divides by the deviation even when it is 0
ZScore_unguarded(v, mu, var) ==
    LET d == mu.n * v - mu.sum
    IN [sign |-> IF d > 0 THEN 1 ELSE IF d < 0 THEN 0 - 1 ELSE 0,
        num |-> d * d * var.den,
        den |-> var.num]

\* sd === 0 ? null : (v - mu) / sd, kept as its sign and its square
\* (v - mu)^2 / sd^2 = (n v - S)^2 / (n^2 sd^2) = num / den
ZScore(v, mu, var) ==
    IF var.num = 0 THEN NULL
    ELSE LET d == mu.n * v - mu.sum
         IN [sign |-> IF d > 0 THEN 1 ELSE IF d < 0 THEN 0 - 1 ELSE 0,
             num |-> d * d * var.den,
             den |-> var.num]

\* z != null && Math.abs(z) >= zThreshold, the threshold given in halves:
\* |z| >= h / 2 exactly when 4 z^2 >= h^2
IsAnomaly(z, halves) ==
    z # NULL /\ 4 * z.num >= halves * halves * z.den

\* a direction that reads the sign the wrong way round
Direction_inverted(z) == IF z.sign > 0 THEN "drop" ELSE "spike"

\* z > 0 ? "spike" : "drop"
Direction(z) == IF z.sign > 0 THEN "spike" ELSE "drop"

\* the arguments: windowDays within min(3).max(30) and zThreshold in halves
\* (1, 1.5 and 2.5)
WindowInputs == {Days(3), DaysAndHalf(3), Days(7)}
ThresholdInputs == {2, 3, 5}
\* the daily values of the metric
ValueInputs == {10, 11, 100}

InitAnomaly ==
    /\ variant \in {"mjs_v2", "part_000"}
    /\ GA4_PROPERTY_ID = "423169216"
    /\ MCP_API_KEY = GoodKey
    /\ MCP_PATH_TOKEN = ""
    /\ proc = "serving"
    /\ inv = [r \in Reqs |-> Idle]
    /\ IdleReport /\ IdlePeriod /\ IdleCompare /\ IdleFunnel /\ IdleShared
    /\ \E w \in WindowInputs, t \in ThresholdInputs :
          an = [pc |-> "fetching", windowDays |-> w, zThreshold |-> t,
                series |-> <<>>, i |-> Days(0), evaluated |-> <<>>,
                anomalies |-> <<>>]

\* the report holds one more day
SeriesPoint ==
    /\ an.pc = "fetching"
    /\ Len(an.series) < MaxSeries
    /\ \E v \in ValueInputs : an' = [an EXCEPT !.series = Append(@, v)]

\* runReportKV returns; for (let i = windowDays; ...
StartLoop ==
    /\ an.pc = "fetching"
    /\ an' = [an EXCEPT !.pc = "loop", !.i = an.windowDays]

\* one pass of the loop body for index i; series[i] is undefined when i is
\* not whole, and series[i].value then throws a TypeError that ends the call
\* (caught into an error result in part_000, a rejected handler in
\* server.mjs)
EvalPoint ==
    /\ an.pc = "loop"
    /\ LessThan(an.i, Len(an.series))
    /\ IF an.i.half
       THEN an' = [an EXCEPT !.pc = "failed"]
       ELSE LET window == Slice(an.series, an.i.whole - an.windowDays.whole, an.i)
                mu == Mean(window)
                var == Variance(window, mu)
                v == an.series[an.i.whole + 1]
                z == ZScore(v, mu, var)
            IN an' = [an EXCEPT
                        !.i = PlusOne(@),
                        !.evaluated = Append(@, [index |-> an.i.whole,
                                                 window |-> window,
                                                 zScore |-> z]),
                        !.anomalies =
                           IF IsAnomaly(z, an.zThreshold)
                           THEN Append(@, [index |-> an.i.whole, value |-> v,
                                           baselineMean |-> mu,
                                           baselineVar |-> var,
                                           zScore |-> z,
                                           direction |-> Direction(z)])
                           ELSE @]

\* the loop ends: return jsonText({... anomalies ...})
ReturnAnomalies ==
    /\ an.pc = "loop"
    /\ ~LessThan(an.i, Len(an.series))
    /\ an' = [an EXCEPT !.pc = "returned"]

NextAnomaly ==
    \/ SeriesPoint /\ UNCHANGED <<gwVars, rpVars, pd, cm, exVars>>
    \/ StartLoop /\ UNCHANGED <<gwVars, rpVars, pd, cm, exVars>>
    \/ EvalPoint /\ UNCHANGED <<gwVars, rpVars, pd, cm, exVars>>
    \/ ReturnAnomalies /\ UNCHANGED <<gwVars, rpVars, pd, cm, exVars>>

SpecAnomaly == InitAnomaly /\ [][NextAnomaly]_vars

(***************************************************************************)
(* SpecFunnel: ga_funnel_basic (server.mjs second half, part_000).  The    *)
(* SDK parses the arguments with the tool's zod shape before it calls the  *)
(* handler; the handler compiles the steps, calls the funnel backend once  *)
(* and returns the two sub-tables.                                         *)
(***************************************************************************)
MaxVaried == 2

\* .min(2).max(10) of the steps array
MinFunnelSteps == 2
MaxFunnelSteps == 10

Bool(b) == [t |-> "bool", b |-> b]

\* one element of steps as the caller sends it; an optional key that is
\* not sent is undefined
Step(name, eventName, contains, followed, within) ==
    [name |-> name, eventName |-> eventName, pageLocationContains |-> contains,
     isDirectlyFollowedBy |-> followed, withinDurationFromPriorStep |-> within]

PlainStep == Step("view", "page_view", UNDEF, UNDEF, UNDEF)

StepInputs ==
    { PlainStep,
      Step("pricing", "page_view", Str("/pricing"), Bool(TRUE), Str("300s")),
      Step("any page", "page_view", Str(""), Bool(FALSE), UNDEF),
      Step("buy", "purchase", UNDEF, UNDEF, Str("300s")),
      Step("", "purchase", UNDEF, UNDEF, UNDEF) }

\* the step lists a caller may send: every list of up to MaxVaried steps,
\* and lists of plain steps at and above the upper limit
StepLists ==
    UNION {[1..k -> StepInputs] : k \in 0..MaxVaried}
    \cup {[i \in 1..k |-> PlainStep] : k \in {MaxFunnelSteps, MaxFunnelSteps + 1}}

\* z.object({name: z.string().min(1), eventName: z.string().min(1), ...})
ValidStep(s) == s.name # "" /\ s.eventName # ""

\* a shape without the upper limit
ValidSteps_noMax(steps) ==
    /\ Len(steps) >= MinFunnelSteps
    /\ \A i \in 1..Len(steps) : ValidStep(steps[i])

\* z.array(...).min(2).max(10)
ValidSteps(steps) ==
    /\ Len(steps) >= MinFunnelSteps
    /\ Len(steps) <= MaxFunnelSteps
    /\ \A i \in 1..Len(steps) : ValidStep(steps[i])

\* stepToFilterExpression(s); part_000 builds the same object in place
stepToFilterExpression(s) ==
    [funnelEventFilter |->
        [eventName |-> s.eventName]
        @@ (IF ~Falsy(s.pageLocationContains)
            THEN "funnelParameterFilterExpression" :>
                    [funnelParameterFilter |->
                        [eventParameterName |-> "page_location",
                         stringFilter |-> [matchType |-> "CONTAINS",
                                           value |-> s.pageLocationContains,
                                           caseSensitive |-> FALSE]]]
            ELSE [k \in {} |-> NULL])]

\* steps.map((s) => ({name, isDirectlyFollowedBy, ...}))
FunnelSteps(steps) ==
    [i \in 1..Len(steps) |->
        [name |-> steps[i].name,
         isDirectlyFollowedBy |-> Coalesce(steps[i].isDirectlyFollowedBy, Bool(FALSE)),
         withinDurationFromPriorStep |-> steps[i].withinDurationFromPriorStep,
         filterExpression |-> stepToFilterExpression(steps[i])]]

\* the sub-tables the funnel backend may return; a response may lack one
NoTable == UNDEF
StepTable ==
    [dimensionHeaders |-> Arr(<<Str("funnelStepName")>>),
     metricHeaders |-> Arr(<<Str("activeUsers")>>),
     rows |-> Arr(<<[dimensionValues |-> Arr(<<Str("1. view")>>),
                     metricValues |-> Arr(<<Str("42")>>)],
                    [dimensionValues |-> Arr(<<Str("2. buy")>>),
                     metricValues |-> Arr(<<Str("7")>>)]>>)]
VisualizationTable ==
    [dimensionHeaders |-> Arr(<<Str("funnelStepName"), Str("deviceCategory")>>),
     metricHeaders |-> Arr(<<Str("activeUsers")>>),
     rows |-> Arr(<<[dimensionValues |-> Arr(<<Str("1. view"), Str("mobile")>>),
                     metricValues |-> Arr(<<Str("abc")>>)]>>)]

FunnelResponses ==
    {[funnelTable |-> a, funnelVisualization |-> b] :
        a \in {NoTable, StepTable}, b \in {NoTable, VisualizationTable}}

\* parseSubReport(sr || {})
parseSubReport(sr) ==
    LET t == IF sr = NoTable THEN NoRes ELSE sr
        kvs == runReportKV(t)
    IN [dimensionHeaders |-> kvs.dimHeaders,
        metricHeaders |-> kvs.metHeaders,
        rows |-> kvs.rows]

InitFunnel ==
    /\ variant \in {"mjs_v2", "part_000"}
    /\ GA4_PROPERTY_ID = "423169216"
    /\ MCP_API_KEY = GoodKey
    /\ MCP_PATH_TOKEN = ""
    /\ proc = "serving"
    /\ inv = [r \in Reqs |-> Idle]
    /\ IdleReport /\ IdlePeriod /\ IdleCompare /\ IdleAnomaly /\ IdleShared
    /\ \E steps \in StepLists, isOpenFunnel \in BOOLEAN :
          fn = [pc |-> "called", steps |-> steps, isOpenFunnel |-> isOpenFunnel,
                compiled |-> <<>>, calls |-> 0, resp |-> UNDEF, out |-> UNDEF,
                error |-> NoMsg]

\* the SDK parses the arguments: a list the shape refuses never reaches
\* the handler
ValidateSteps ==
    /\ fn.pc = "called"
    /\ fn' = IF ValidSteps(fn.steps)
             THEN [fn EXCEPT !.pc = "validated"]
             ELSE [fn EXCEPT !.pc = "rejected",
                             !.error = Msg("Invalid arguments for tool ga_funnel_basic", 42)]

\* the handler up to the await: funnelSteps, the request, the backend call
CompileSteps ==
    /\ fn.pc = "validated"
    /\ fn' = [fn EXCEPT !.pc = "awaiting",
                        !.compiled = FunnelSteps(fn.steps),
                        !.calls = @ + 1]

\* the funnel backend answers
FunnelAnswer ==
    /\ fn.pc = "awaiting"
    /\ \E resp \in FunnelResponses : fn' = [fn EXCEPT !.pc = "answered", !.resp = resp]

\* the funnel backend fails: rejection (server.mjs); caught (part_000)
FunnelFail ==
    /\ fn.pc = "awaiting"
    /\ \E e \in BackendErrors :
          fn' = [fn EXCEPT !.pc = "failed",
                           !.error = IF variant = "part_000" THEN formatErr(e) ELSE e]

\* return jsonText({...}): server.mjs flattens the two sub-tables, part_000
\* hands the response on as it came
ReturnFunnel ==
    /\ fn.pc = "answered"
    /\ fn' = [fn EXCEPT
                !.pc = "returned",
                !.out =
                   IF variant = "part_000"
                   THEN [report |-> "funnel_basic",
                         propertyId |-> GA4_PROPERTY_ID,
                         request |-> [isOpenFunnel |-> fn.isOpenFunnel,
                                      steps |-> fn.steps],
                         response |-> fn.resp]
                   ELSE [report |-> "funnel_basic",
                         propertyId |-> GA4_PROPERTY_ID,
                         request |-> [isOpenFunnel |-> fn.isOpenFunnel,
                                      steps |-> fn.steps],
                         funnelTable |-> parseSubReport(fn.resp.funnelTable),
                         funnelVisualization |->
                            parseSubReport(fn.resp.funnelVisualization)]]

NextFunnel ==
    \/ ValidateSteps /\ UNCHANGED <<gwVars, rpVars, drVars, tp>>
    \/ CompileSteps /\ UNCHANGED <<gwVars, rpVars, drVars, tp>>
    \/ FunnelAnswer /\ UNCHANGED <<gwVars, rpVars, drVars, tp>>
    \/ FunnelFail /\ UNCHANGED <<gwVars, rpVars, drVars, tp>>
    \/ ReturnFunnel /\ UNCHANGED <<gwVars, rpVars, drVars, tp>>

SpecFunnel == InitFunnel /\ [][NextFunnel]_vars

(***************************************************************************)
(* SpecShared: the SDK files create one StreamableHTTPServerTransport at   *)
(* module level (sessionIdGenerator: undefined) and hand every POST to it. *)
(* The transport keeps, per JSON-RPC request id, the connection the answer *)
(* to that id is written to; the entry is set when a request arrives and   *)
(* dropped when its answer was written.                                    *)
(***************************************************************************)
MaxCallers == 2

Callers == 1..MaxCallers

\* the connection registered for each request id; 0 is: none
NoStreams == [i \in RpcIds |-> 0]

InitShared ==
    /\ variant \in SdkVariants
    /\ GA4_PROPERTY_ID = "423169216"
    /\ MCP_API_KEY = GoodKey
    /\ MCP_PATH_TOKEN = ""
    /\ proc = "serving"
    /\ inv = [r \in Callers |-> Idle]
    /\ IdleReport /\ IdlePeriod /\ IdleCompare /\ IdleAnomaly /\ IdleFunnel
    /\ tp = [pc |-> "connected", streams |-> NoStreams]

\* transport.handleRequest(req, res, req.body) for a tools/call of a
\* registered tool: the connection is entered under the request's id and the
\* handler starts
HandleShared(r) ==
    /\ inv[r].pc = "Authorized"
    /\ \E body \in SdkBodies :
        /\ body.method = "tools/call"
        /\ body.name \in SdkTools(variant)
        /\ inv' = [inv EXCEPT ![r] =
                     [Goto([@ EXCEPT !.body = body],
                           <<"Validated", "Executing">>) EXCEPT
                        !.handler = body.name,
                        !.hargs = SdkDailyTrendArgs(body.arguments),
                        !.call = [issued |-> TRUE,
                                  request |-> SdkDailyTrendRequest(
                                     variant, SdkDailyTrendArgs(body.arguments))],
                        !.backend = "pending"]]
        /\ tp' = [tp EXCEPT !.streams[body.id] = r]
    /\ UNCHANGED <<variant, GA4_PROPERTY_ID, MCP_API_KEY, MCP_PATH_TOKEN, proc>>

\* the handler of r is over and the transport sends its answer: it goes to
\* the connection entered under the answer's id, which is the connection of
\* the invocation that arrived last with that id; without an entry the send
\* throws and nothing is written
FinishShared(r) ==
    /\ inv[r].pc = "Executing"
    /\ inv[r].backend \in {"answered", "failed"}
    /\ LET done == DeliverSdk(variant, inv[r])
           to == tp.streams[inv[r].body.id]
       IN /\ inv' = IF to = r THEN [inv EXCEPT ![r] = done]
                    ELSE IF to = 0
                    THEN [inv EXCEPT ![r] = Goto(@, <<done.pc>>)]
                    ELSE [inv EXCEPT ![r] = Goto(@, <<done.pc>>),
                                     ![to] = [@ EXCEPT !.resp = done.resp,
                                                       !.sent = @ + 1]]
          /\ tp' = IF to = 0 THEN tp
                   ELSE [tp EXCEPT !.streams[inv[r].body.id] = 0]
    /\ UNCHANGED <<variant, GA4_PROPERTY_ID, MCP_API_KEY, MCP_PATH_TOKEN, proc>>

NextShared ==
    \/ \E r \in Callers : Receive(r) /\ UNCHANGED <<rpVars, drVars, exVars>>
    \/ \E r \in Callers : Health(r) /\ UNCHANGED <<rpVars, drVars, exVars>>
    \/ \E r \in Callers : PostMcpSdk(r) /\ UNCHANGED <<rpVars, drVars, exVars>>
    \/ \E r \in Callers : HandleShared(r) /\ UNCHANGED <<rpVars, drVars, fn>>
    \/ \E r \in Callers : BackendAnswer(r) /\ UNCHANGED <<rpVars, drVars, exVars>>
    \/ \E r \in Callers : BackendFail(r) /\ UNCHANGED <<rpVars, drVars, exVars>>
    \/ \E r \in Callers : FinishShared(r) /\ UNCHANGED <<rpVars, drVars, fn>>

SpecShared == InitShared /\ [][NextShared]_vars

(***************************************************************************)
(* Properties of the gateway (Spec).                                       *)
(***************************************************************************)
\* the operation a body names, "" when it is not a call of an operation
Named(body) ==
    IF IsFlat(body) THEN body.tool
    ELSE IF IsRpc(body) /\ body.method = "tools/call" THEN body.name
    ELSE ""

\* the body names an operation that is not in the registry of server.js
NamesUnknown(body) == Named(body) # "" /\ Named(body) \notin ToolNames

\* the invocation got past authentication and its body was read
Dispatched(i) == i.body # NoBody

\* C1: in server.js, for the flat and for the correlated shape, an invocation
\* that names an operation outside the registry ends in a not-found failure
\* response (404 "tool not found", resp. JSON-RPC error -32601 under the
\* request id); no handler runs and no backend call is issued for it.
C1_UnknownToolNotFound ==
    \A r \in Reqs :
        (variant = "server_js" /\ Dispatched(inv[r]) /\ NamesUnknown(inv[r].body))
        => /\ inv[r].pc = "Failed"
           /\ inv[r].sent = 1
           /\ inv[r].handler = ""
           /\ "Executing" \notin Range(inv[r].trace)
           /\ ~inv[r].call.issued
           /\ inv[r].resp.message.text = "tool not found"
           /\ IF IsFlat(inv[r].body)
              THEN inv[r].resp.status = 404
              ELSE /\ inv[r].resp.form = "rpc_error"
                   /\ inv[r].resp.code = -32601
                   /\ inv[r].resp.id = inv[r].body.id

C1_Witness ==
    \E r \in Reqs :
        /\ variant = "server_js"
        /\ IsRpc(inv[r].body)
        /\ NamesUnknown(inv[r].body)
        /\ inv[r].resp.code = -32601

\* C2: every response to a request of the correlated shape carries the id of
\* the request unchanged, on completion and on every failure.
C2_IdEchoed ==
    \A r \in Reqs :
        (inv[r].sent > 0 /\ IsRpc(inv[r].body))
        => inv[r].resp.id = inv[r].body.id

\* the response carries an error code: a JSON-RPC code or an HTTP error status
HasErrorCode(resp) == resp.code # 0 \/ resp.status >= 400

\* the invocation met a failure: unknown name, handler exception, backend error
MetFailure(i) ==
    \/ NamesUnknown(i.body)
    \/ i.backend = "failed"
    \/ i.handler # "" /\ GA4_PROPERTY_ID = ""

\* C3: a dispatched invocation that met a failure ends in Failed, with a
\* response that carries an error code and a message.
C3_FailureEnvelope ==
    \A r \in Reqs :
        (Dispatched(inv[r]) /\ MetFailure(inv[r]) /\ inv[r].sent > 0
           /\ inv[r].resp.form \notin {"sdk", "sdk_error"})
        => /\ inv[r].pc = "Failed"
           /\ HasErrorCode(inv[r].resp)
           /\ inv[r].resp.message # NoMsg

\* the declared type of a parameter admits the value
TypeAdmits(type, v) ==
    \/ v = UNDEF
    \/ type = "none"
    \/ type = "string" /\ v.t = "str"
    \/ type = "number" /\ v.t = "num"

\* the parameter shape declared for a handler: inputSchema of TOOLS in
\* server.js, the zod shape of ga_daily_trend in the SDK variants
DeclaredSchema(v, name) ==
    IF v = "server_js" THEN TOOLS[ToolFind(name)].schema
    ELSE [startDate |-> "string", endDate |-> "string",
          limit |-> "none", days |-> "none"]

ArgsValid(schema, args) ==
    \A p \in DOMAIN schema : TypeAdmits(schema[p], args[p])

\* C4: a handler is never executed with arguments that violate the declared
\* parameter shape of its operation.
C4_HandlerSeesValidArgs ==
    \A r \in Reqs :
        inv[r].handler # ""
        => ArgsValid(DeclaredSchema(variant, inv[r].handler), inv[r].hargs)

\* the object the handler of the named operation returns for these arguments
\* and this backend response
ExpectedOut(i) ==
    HandlerOut(Named(i.body), HandlerRequest(Named(i.body), i.body.arguments),
               i.bres)

\* C5 as stated: in both call shapes the result is delivered as textual JSON
\* inside a single content element.
C5_SameForm ==
    \A r \in Reqs :
        (variant = "server_js" /\ inv[r].pc = "Completed" /\ inv[r].handler # "")
        => /\ inv[r].resp.result.kind = "content"
           /\ Len(inv[r].resp.result.content) = 1

\* C5 amended: both call shapes run the handler of the named operation with
\* the arguments of the request; the correlated shape delivers its result as
\* textual JSON in a single content element of a result under the request id,
\* the flat shape delivers the result object itself as the response body.
C5_SameHandlerOwnForm ==
    \A r \in Reqs :
        (variant = "server_js" /\ inv[r].handler # "")
        => /\ inv[r].handler = Named(inv[r].body)
           /\ inv[r].hargs = inv[r].body.arguments
           /\ inv[r].pc = "Completed" =>
                IF IsFlat(inv[r].body)
                THEN /\ inv[r].resp.form = "raw"
                     /\ inv[r].resp.result =
                            [kind |-> "object", out |-> ExpectedOut(inv[r])]
                ELSE /\ inv[r].resp.form = "rpc_result"
                     /\ inv[r].resp.id = inv[r].body.id
                     /\ inv[r].resp.result.kind = "content"
                     /\ Len(inv[r].resp.result.content) = 1
                     /\ inv[r].resp.result.content[1] =
                            [type |-> "text",
                             text |-> JSONstringify(ExpectedOut(inv[r]))]

C5_Witness ==
    \E r \in Reqs :
        /\ variant = "server_js"
        /\ inv[r].pc = "Completed"
        /\ inv[r].handler = "ga_daily_trend"
        /\ IsRpc(inv[r].body)
        /\ Len(inv[r].resp.result.content[1].text.json.rows) = 2

\* s is a prefix of t
IsPrefix(s, t) == Len(s) <= Len(t) /\ \A k \in 1..Len(s) : s[k] = t[k]

\* the positions of an invocation before its terminal state
Before(i) ==
    IF i.pc \in {"Completed", "Failed"}
    THEN SubSeq(i.trace, 1, Len(i.trace) - 1) ELSE i.trace

\* C6 (order of states): the states an invocation has passed through are, in
\* this order, Received, Authorized, Validated, Executing, then one terminal
\* state with exactly one response.
C6_StateOrder ==
    \A r \in Reqs :
        inv[r].path = "/mcp"
        => /\ IsPrefix(Before(inv[r]),
                       <<"Received", "Authorized", "Validated", "Executing">>)
           /\ inv[r].pc \in {"Completed", "Failed"} <=> inv[r].sent = 1

\* the request presents a credential equal to a configured secret
PresentsSecret(i) ==
    \/ MCP_API_KEY # "" /\ (i.header = MCP_API_KEY \/ i.query = MCP_API_KEY)
    \/ MCP_PATH_TOKEN # "" /\ i.token = MCP_PATH_TOKEN

\* C7: a handler runs only for a request that presents a configured secret;
\* with no secret configured no request gets past authentication.
C7_AuthFailClosed ==
    \A r \in Reqs :
        /\ inv[r].handler # "" => PresentsSecret(inv[r])
        /\ (MCP_API_KEY = "" /\ MCP_PATH_TOKEN = "" /\ inv[r].path = "/mcp")
           => inv[r].pc \in {"idle", "Received", "Failed"}

\* C8: while GA4_PROPERTY_ID is not set no backend call is issued; a report
\* request fails with the configuration error instead (server.js: assertEnv
\* throws inside the handler; part_000: configErrors answers 500; server.mjs
\* does not start).
C8_NoBackendCallWithoutProperty ==
    GA4_PROPERTY_ID = ""
    => \A r \in Reqs :
          /\ ~inv[r].call.issued
          /\ inv[r].backend = "none"
          /\ inv[r].handler # ""
             => /\ inv[r].pc = "Failed"
                /\ inv[r].resp.message.text = "GA4_PROPERTY_ID is not set"
          /\ (variant = "part_000" /\ inv[r].path = "/mcp" /\ inv[r].sent > 0)
             => /\ inv[r].resp.status = 500
                /\ inv[r].resp.message.text = "Missing env: GA4_PROPERTY_ID"
          /\ variant \in {"mjs_v1", "mjs_v2"} => inv[r].pc = "idle"

C8_Witness ==
    \E r \in Reqs :
        /\ GA4_PROPERTY_ID = ""
        /\ inv[r].handler # ""
        /\ inv[r].pc = "Failed"

(***************************************************************************)
(* Properties of the normalizers (SpecReport).                             *)
(***************************************************************************)
\* C9: the output of runReportKV has as many rows as the raw response, in the
\* same order, and every row has exactly one field per header of the request,
\* |dimensions| + |metrics| in all, whatever values the raw row holds.
C9_RowsAndFields ==
    rp \in {"kv", "done"}
    => /\ Len(kv) = Len(OrEmpty(raw.rows))
       /\ \A i \in 1..Len(kv) :
            /\ DOMAIN kv[i] = Range(rq.dimensions) \cup Range(rq.metrics)
            /\ Cardinality(DOMAIN kv[i]) = Len(rq.dimensions) + Len(rq.metrics)
            /\ \A j \in 1..Len(rq.dimensions) :
                  LET c == ValueAt(raw.rows.cells[i].dimensionValues, j)
                  IN kv[i][rq.dimensions[j]] = IF c.t = "str" THEN c ELSE Str("")
            /\ \A j \in 1..Len(rq.metrics) :
                  ValueAt(raw.rows.cells[i].metricValues, j) = Str("42")
                  => kv[i][rq.metrics[j]] = Num(42)

C9_Witness ==
    /\ rp = "kv"
    /\ Len(kv) = 2
    /\ Len(rq.dimensions) = 1
    /\ ~raw.rows.cells[1].metricValues.present
    /\ raw.rows.cells[1].dimensionValues = Arr(<<NULL>>)
    /\ raw.rows.cells[2].dimensionValues = Arr(<<Str("20260102")>>)

\* what the claim says a raw metric value is normalized to
Coerced(v) == IF v = Str("42") THEN Num(42) ELSE Num(0)

\* C10: every metric of every report row is the coercion of the raw value:
\* 42 for "42", 0 for null, undefined, "abc" and non-finite values; no row
\* holds a non-finite metric.  Stated of runReportKV and of the rows of the
\* server.js handlers.
C10_MetricsCoerced ==
    /\ rp \in {"kv", "done"}
       => \A i \in 1..Len(kv) : \A j \in 1..Len(rq.metrics) :
             kv[i][rq.metrics[j]] =
                Coerced(ValueAt(raw.rows.cells[i].metricValues, j))
    /\ rp = "done"
       => \A i \in 1..Len(js) :
             /\ IsFinite(js[i].sessions)
             /\ js[i].sessions =
                   Coerced(ValueAt(raw.rows.cells[i].metricValues, 1))

(***************************************************************************)
(* Properties of the comparison period (SpecPeriod).                       *)
(***************************************************************************)
\* how many days before today a relative date expression names
DaysBack(e) ==
    IF e = Lit("yesterday") THEN 1
    ELSE IF e = Lit("today") THEN 0
    ELSE NumberOfDigits(e.digits)

\* the days of a range of relative dates, each as its distance from today
DaysOf(range) == {k \in DaysBack(range.endDate)..DaysBack(range.startDate) : TRUE}

\* the call is of the form "<N>daysAgo" .. "yesterday", N >= 1, in a mode
\* and variant that derive the preceding period
RelativeToYesterday ==
    /\ pd.pc # "called"
    /\ pd.startDate.k = "ago"
    /\ NumberOfDigits(pd.startDate.digits) >= 1
    /\ pd.endDate = Lit("yesterday")
    /\ (variant = "part_000" \/ pd.compareMode = "previous_period")

\* C11: for "<N>daysAgo" .. "yesterday", N >= 1, the previous period is
\* "<2N>daysAgo" .. "<N+1>daysAgo": as many days as the current period,
\* ending the day before the current period starts, no day in common.
C11_PreviousPeriod ==
    RelativeToYesterday
    => LET n == NumberOfDigits(pd.startDate.digits)
           cur == Range2(pd.startDate, pd.endDate)
       IN /\ pd.compareRange = Range2(DaysAgo(2 * n), DaysAgo(n + 1))
          /\ Cardinality(DaysOf(pd.compareRange)) = Cardinality(DaysOf(cur))
          /\ DaysBack(pd.compareRange.endDate) = DaysBack(cur.startDate) + 1
          /\ DaysOf(pd.compareRange) \cap DaysOf(cur) = {}

C11_Witness ==
    /\ RelativeToYesterday
    /\ pd.startDate = DaysAgoText(<<7>>)
    /\ pd.compareRange = Range2(DaysAgoText(<<1, 4>>), DaysAgoText(<<8>>))
    /\ pd.pc = "returned"

\* the date expressions have one of the shapes a comparison period is
\* defined for
ResolvableShape ==
    \/ pd.startDate.k = "ago" /\ pd.endDate \in {Lit("yesterday"), Lit("today")}
    \/ pd.compareMode = "previous_year" /\ pd.startDate.k = "iso"
       /\ pd.endDate.k = "iso"

\* C12: when the date expressions have none of the resolvable shapes the
\* handler answers with the not-resolvable error and never issues a backend
\* query.
C12_NotResolvableReported ==
    (pd.pc \notin {"idle", "called"} /\ ~ResolvableShape)
    => /\ pd.pc = "returned"
       /\ pd.error = NotResolvable(variant)
       /\ ~pd.compareRange.resolved
       /\ pd.queries = <<>>

C12_Witness ==
    /\ pd.pc = "returned"
    /\ pd.compareMode = "previous_period"
    /\ pd.startDate = Iso(2025, 1, 1)
    /\ pd.endDate = Iso(2025, 6, 15)
    /\ pd.error # NoMsg

\* the date expression names a calendar day
CalendarDate(e) == e.k = "iso" /\ ValidDate(e.y, e.m, e.d)

\* the date is the same month and day one year before e, or, when that year
\* has no such day, some calendar day of that year
YearBefore(e, date) ==
    /\ date # NULL
    /\ date.k = "iso"
    /\ date.y = e.y - 1
    /\ ValidDate(date.y, date.m, date.d)
    /\ ValidDate(e.y - 1, e.m, e.d) => date.m = e.m /\ date.d = e.d

\* C13: in mode previous_year with two ISO calendar dates, each end of the
\* comparison period is the same month and day one year earlier; 29 February
\* resolves to a calendar day of the year before.
C13_PreviousYear ==
    (/\ variant = "mjs_v2"
     /\ pd.pc \notin {"idle", "called"}
     /\ pd.compareMode = "previous_year"
     /\ CalendarDate(pd.startDate) /\ CalendarDate(pd.endDate))
    => /\ pd.compareRange.resolved
       /\ YearBefore(pd.startDate, pd.compareRange.startDate)
       /\ YearBefore(pd.endDate, pd.compareRange.endDate)

(***************************************************************************)
(* Properties of the comparison (SpecCompare).                             *)
(***************************************************************************)
\* the channel has a row in the previous report
HasPrevious(ch) == \E i \in 1..Len(cm.prev) : ChannelOf(cm.prev[i]) = ch

\* the percentage change a merged row reports for a field: the entry of its
\* pctChange mapping; part_000 has no such mapping and reports the change of
\* sessions as delta.sessionsPct.  A missing entry reads as undefined.
PctOf(row, f) ==
    IF "pctChange" \in DOMAIN row THEN Prop(row.pctChange, f)
    ELSE IF f = "sessions" THEN Prop(row.delta, "sessionsPct")
    ELSE UNDEF

\* C14: a current group without a previous group is not dropped: every
\* current group is merged (the limit alone cuts the sorted rows), the
\* previous record of such a group holds only 0 and null, and no field of it
\* has a percentage change (null or undefined).
C14_UnmatchedKept ==
    cm.pc = "returned"
    => /\ Len(cm.rows) = (IF cm.limit < Len(cm.curr) THEN cm.limit ELSE Len(cm.curr))
       /\ cm.limit >= Len(cm.curr)
          => {cm.rows[i].channel : i \in 1..Len(cm.rows)}
                = {ChannelOf(cm.curr[i]) : i \in 1..Len(cm.curr)}
       /\ \A i \in 1..Len(cm.rows) :
             ~HasPrevious(cm.rows[i].channel)
             => /\ \A f \in DOMAIN cm.rows[i].previous :
                      cm.rows[i].previous[f] \in {Num(0), NULL}
                /\ \A f \in DOMAIN cm.rows[i].current :
                      PctOf(cm.rows[i], f) \in {NULL, UNDEF}

C14_Witness ==
    /\ cm.pc = "returned"
    /\ Len(cm.prev) = 1
    /\ Len(cm.rows) = 2
    /\ HasPrevious(cm.rows[1].channel)
    /\ ~HasPrevious(cm.rows[2].channel)
    /\ cm.rows[2].current.sessions = Num(4)

\* the value is a number
IsNum(x) == x.t = "num"

\* C15: pctChange[field] is (current - previous) / previous when both sides
\* are numbers and previous is not 0, and null otherwise; no division by
\* zero is made.
C15_PctChange ==
    cm.pc = "returned"
    => \A i \in 1..Len(cm.rows) : \A f \in DOMAIN cm.rows[i].current :
          LET c == cm.rows[i].current[f]
              p == cm.rows[i].previous[f]
          IN /\ PctOf(cm.rows[i], f) \notin {NaN, Infinity}
             /\ IF IsNum(c) /\ IsNum(p) /\ p.n # 0
                THEN PctOf(cm.rows[i], f) = [t |-> "quot", num |-> c.n - p.n, den |-> p.n]
                ELSE PctOf(cm.rows[i], f) \in {NULL, UNDEF}

\* C16: delta[field] is present and equals current - previous for every
\* field that holds a number in current and in previous, the rate of the
\* key event included.
C16_Delta ==
    cm.pc = "returned"
    => \A i \in 1..Len(cm.rows) : \A f \in DOMAIN cm.rows[i].current :
          LET c == cm.rows[i].current[f]
              p == cm.rows[i].previous[f]
          IN (IsNum(c) /\ IsNum(p))
             => /\ f \in DOMAIN cm.rows[i].delta
                /\ cm.rows[i].delta[f] = Num(c.n - p.n)

\* the place of a merged row's group in the current report
PlaceInCurrent(row) ==
    CHOOSE i \in 1..Len(cm.curr) : ChannelOf(cm.curr[i]) = row.channel

\* C17: the rows come in descending order of the current sessions, and rows
\* of equal current sessions in the order of the current report.
C17_SortedStable ==
    cm.pc = "returned"
    => \A a, b \in 1..Len(cm.rows) :
          a < b
          => /\ cm.rows[a].current.sessions.n >= cm.rows[b].current.sessions.n
             /\ cm.rows[a].current.sessions = cm.rows[b].current.sessions
                => PlaceInCurrent(cm.rows[a]) < PlaceInCurrent(cm.rows[b])

C17_Witness ==
    /\ cm.pc = "returned"
    /\ Len(cm.rows) = 2
    /\ cm.rows[1].current.sessions = Num(10)
    /\ cm.rows[2].current.sessions = Num(10)
    /\ cm.rows[1].current.activeUsers = Num(7)
    /\ cm.rows[2].current.activeUsers = Num(8)

(***************************************************************************)
(* Properties of the anomaly detector (SpecAnomaly).                       *)
(***************************************************************************)
\* the point of the series at index i, counted from 0
PointAt(i) == an.series[i + 1]

\* the indices of the series that are not below windowDays
IndicesFromWindow ==
    {i \in 0..(Len(an.series) - 1) :
        IF an.windowDays.half THEN i > an.windowDays.whole
        ELSE i >= an.windowDays.whole}

\* C18: the indices evaluated are those from windowDays to len(series) - 1,
\* in order and all of them once the call is over; the baseline of index i
\* is made of the points before i down to i - windowDays and of no other;
\* no index below windowDays is reported.
C18_TrailingWindow ==
    an.pc \in {"loop", "returned", "failed"}
    => /\ \A k \in 1..Len(an.evaluated) :
             LET e == an.evaluated[k]
             IN /\ e.index \in IndicesFromWindow
                /\ k > 1 => e.index = an.evaluated[k - 1].index + 1
                /\ e.window = [j \in 1..an.windowDays.whole |->
                                 PointAt(e.index - an.windowDays.whole + j - 1)]
       /\ an.pc \in {"returned", "failed"}
          => {an.evaluated[k].index : k \in 1..Len(an.evaluated)}
                = IndicesFromWindow
       /\ \A k \in 1..Len(an.anomalies) :
             /\ an.anomalies[k].index \in IndicesFromWindow
             /\ \E j \in 1..Len(an.evaluated) :
                   an.evaluated[j].index = an.anomalies[k].index

\* all values of the sequence are equal
Flat(s) == \A j, k \in 1..Len(s) : s[j] = s[k]

\* C19: a point whose window is flat has a null z-score and is not reported,
\* whatever the threshold; a series of equal values yields no anomaly.
C19_FlatNeverFlagged ==
    an.pc \in {"loop", "returned"}
    => /\ \A k \in 1..Len(an.evaluated) :
             Flat(an.evaluated[k].window)
             => /\ an.evaluated[k].zScore = NULL
                /\ \A j \in 1..Len(an.anomalies) :
                      an.anomalies[j].index # an.evaluated[k].index
       /\ Flat(an.series) => an.anomalies = <<>>

C19_Witness ==
    /\ an.pc = "returned"
    /\ an.zThreshold = 2
    /\ an.windowDays = Days(3)
    /\ Len(an.series) = 5
    /\ Flat(an.series)
    /\ Len(an.evaluated) = 2

\* the call of the example: windowDays 7, zThreshold 2.5, seven days of 10
\* and then a day of 100, all evaluated
SevenTensThenHundred ==
    /\ an.pc = "returned"
    /\ an.windowDays = Days(7)
    /\ an.zThreshold = 5
    /\ Len(an.series) >= 8
    /\ SubSeq(an.series, 1, 8) = <<10, 10, 10, 10, 10, 10, 10, 100>>

\* C20 as stated: the eighth point is reported as a spike.
C20_SpikeFlagged ==
    SevenTensThenHundred
    => \E k \in 1..Len(an.anomalies) :
          an.anomalies[k].index = 7 /\ an.anomalies[k].direction = "spike"

\* C20 amended: after seven days of 10 the window is flat, the z-score of
\* the eighth point is null and the point is not reported; after
\* 10, 10, 10, 10, 10, 10, 11 the eighth point, 100, is reported as a spike.
C20_FlatWindowNotFlagged ==
    /\ SevenTensThenHundred
       => /\ an.evaluated[1].index = 7
          /\ an.evaluated[1].zScore = NULL
          /\ \A k \in 1..Len(an.anomalies) : an.anomalies[k].index # 7
    /\ (/\ an.pc = "returned"
        /\ an.windowDays = Days(7)
        /\ an.zThreshold = 5
        /\ Len(an.series) >= 8
        /\ SubSeq(an.series, 1, 8) = <<10, 10, 10, 10, 10, 10, 11, 100>>)
       => \E k \in 1..Len(an.anomalies) :
             /\ an.anomalies[k].index = 7
             /\ an.anomalies[k].value = 100
             /\ an.anomalies[k].direction = "spike"

C20_Witness ==
    /\ SevenTensThenHundred
    /\ Len(an.series) = 8
    /\ an.anomalies = <<>>

\* the window of an evaluated point: W values of sum S; W times the
\* deviation of v from their mean, and W^2 times the sum of the squared
\* deviations of the window from it
Gap(e) == Len(e.window) * PointAt(e.index) - SumOf(e.window)
Spread(e) ==
    LET W == Len(e.window)
        S == SumOf(e.window)
    IN SumOf([j \in 1..W |-> (W * e.window[j] - S) * (W * e.window[j] - S)])

\* the z-score of the point is defined and |z| >= zThreshold: with
\* z^2 = Gap^2 (W - 1) / Spread and the threshold h / 2
Exceeds(e) ==
    LET g == Gap(e)
        q == Spread(e)
    IN /\ q # 0
       /\ 4 * g * g * (an.windowDays.whole - 1)
             >= an.zThreshold * an.zThreshold * q

\* C21: when the call is over, an evaluated point is reported exactly when
\* its z-score, the deviation from the window's mean over the sample
\* standard deviation with divisor windowDays - 1, is defined and at least
\* zThreshold in absolute value; a reported record is a spike exactly when
\* the z-score is positive and a drop exactly when it is negative.
C21_FlaggedIffExceeds ==
    an.pc \in {"returned", "failed"}
    => /\ \A k \in 1..Len(an.evaluated) :
             Exceeds(an.evaluated[k])
             <=> \E j \in 1..Len(an.anomalies) :
                    an.anomalies[j].index = an.evaluated[k].index
       /\ \A j \in 1..Len(an.anomalies) :
             \E k \in 1..Len(an.evaluated) :
                LET e == an.evaluated[k]
                IN /\ e.index = an.anomalies[j].index
                   /\ an.anomalies[j].direction \in {"spike", "drop"}
                   /\ an.anomalies[j].direction = "spike" <=> Gap(e) > 0
                   /\ an.anomalies[j].direction = "drop" <=> Gap(e) < 0

C21_Witness ==
    /\ an.pc = "returned"
    /\ \E j \in 1..Len(an.anomalies) : an.anomalies[j].direction = "drop"
    /\ \E j \in 1..Len(an.anomalies) : an.anomalies[j].direction = "spike"
    /\ \E k \in 1..Len(an.evaluated) :
          /\ an.evaluated[k].zScore # NULL
          /\ \A j \in 1..Len(an.anomalies) :
                an.anomalies[j].index # an.evaluated[k].index

(***************************************************************************)
(* Further properties of the period resolver (SpecPeriod).                 *)
(***************************************************************************)
\* the call is of the form "<N>daysAgo" .. "today", N >= 1, in a mode and
\* variant that derive the preceding period
RelativeToToday ==
    /\ pd.pc # "called"
    /\ pd.startDate.k = "ago"
    /\ NumberOfDigits(pd.startDate.digits) >= 1
    /\ pd.endDate = Lit("today")
    /\ (variant = "part_000" \/ pd.compareMode = "previous_period")

\* C28: for "<N>daysAgo" .. "today", N >= 1, the previous period is
\* "<2N-1>daysAgo" .. "<N>daysAgo", it has no day in common with the current
\* period and as many days as the current period.
C28_TodayDisjointSameLength ==
    RelativeToToday
    => LET n == NumberOfDigits(pd.startDate.digits)
           cur == Range2(pd.startDate, pd.endDate)
       IN /\ pd.compareRange = Range2(DaysAgo(2 * n - 1), DaysAgo(n))
          /\ DaysOf(pd.compareRange) \cap DaysOf(cur) = {}
          /\ Cardinality(DaysOf(pd.compareRange)) = Cardinality(DaysOf(cur))

\* the call is one computePreviousPeriod resolves: "<N>daysAgo", N >= 0, up
\* to "yesterday" or "today"
ResolvedByDaysAgo ==
    /\ pd.pc # "called"
    /\ pd.startDate.k = "ago"
    /\ pd.endDate \in {Lit("yesterday"), Lit("today")}
    /\ (variant = "part_000" \/ pd.compareMode = "previous_period")

\* C29: every period computePreviousPeriod resolves is made of two
\* expressions "<k>daysAgo" with k >= 0, and its start is not later than
\* its end.
C29_WellFormedRange ==
    ResolvedByDaysAgo
    => /\ pd.compareRange.resolved
       /\ pd.compareRange.startDate.k = "ago"
       /\ pd.compareRange.endDate.k = "ago"
       /\ NumberOfDigits(pd.compareRange.startDate.digits)
             >= NumberOfDigits(pd.compareRange.endDate.digits)

(***************************************************************************)
(* Further properties of the comparison (SpecCompare).                     *)
(***************************************************************************)
\* C26: rows are merged only after both backend calls, the current period's
\* first and the previous period's second, were answered; when either call
\* fails the invocation ends with the failure's message and without rows.
C26_MergeAfterBoth ==
    /\ (cm.pc = "returned" \/ cm.rows # <<>>)
       => cm.calls = <<"answered", "answered">>
    /\ (cm.pc # "idle" /\ \E k \in 1..Len(cm.calls) : cm.calls[k] = "failed")
       => /\ cm.pc = "failed"
          /\ cm.rows = <<>>
          /\ cm.error # NoMsg

C26_Witness ==
    /\ cm.pc = "failed"
    /\ cm.calls = <<"answered", "failed">>
    /\ Len(cm.curr) = 2
    /\ cm.rows = <<>>

\* the groups of the current report, as the merge names them
CurrentGroups == {ChannelOf(cm.curr[i]) : i \in 1..Len(cm.curr)}

\* C30: the output has min(current rows, limit) rows, each for a different
\* group of the current report; the cut comes after the sort, so no group
\* left out has more current sessions than a group kept; a group of the
\* previous report alone is not in the output.
C30_OneRowPerCurrent ==
    cm.pc = "returned"
    => /\ Len(cm.rows) = (IF Len(cm.curr) < cm.limit THEN Len(cm.curr) ELSE cm.limit)
       /\ \A i \in 1..Len(cm.rows) : cm.rows[i].channel \in CurrentGroups
       /\ \A i, j \in 1..Len(cm.rows) :
             i # j => cm.rows[i].channel # cm.rows[j].channel
       /\ \A k \in 1..Len(cm.curr) :
             (\A i \in 1..Len(cm.rows) : cm.rows[i].channel # ChannelOf(cm.curr[k]))
             => \A i \in 1..Len(cm.rows) :
                   cm.rows[i].current.sessions.n >= JsOr(cm.curr[k].sessions, Num(0)).n
       /\ \A k \in 1..Len(cm.prev) :
             ChannelOf(cm.prev[k]) \notin CurrentGroups
             => \A i \in 1..Len(cm.rows) : cm.rows[i].channel # ChannelOf(cm.prev[k])

C30_Witness ==
    /\ cm.pc = "returned"
    /\ cm.limit = 1
    /\ Len(cm.curr) = 2
    /\ cm.curr[1].sessions = Num(4)
    /\ cm.curr[2].sessions = Num(10)
    /\ Len(cm.rows) = 1
    /\ cm.rows[1].channel = ChannelOf(cm.curr[2])
    /\ \E k \in 1..Len(cm.prev) : ChannelOf(cm.prev[k]) = Str("Referral")

(***************************************************************************)
(* Properties of the funnel (SpecFunnel).                                  *)
(***************************************************************************)
\* C22: a call with fewer than 2 or more than 10 steps is rejected before
\* the handler runs: no step is compiled and no funnel call is issued.
C22_StepCountRejected ==
    (fn.pc \notin {"idle", "called"}
       /\ (Len(fn.steps) < 2 \/ Len(fn.steps) > 10))
    => /\ fn.pc = "rejected"
       /\ fn.compiled = <<>>
       /\ fn.calls = 0
       /\ fn.error # NoMsg

C22_Witness ==
    /\ fn.pc = "rejected"
    /\ Len(fn.steps) = 11
    /\ \A i \in 1..Len(fn.steps) : ValidStep(fn.steps[i])

\* the filter on the page location a compiled step may hold
PageFilter(value) ==
    [funnelParameterFilter |->
        [eventParameterName |-> "page_location",
         stringFilter |-> [matchType |-> "CONTAINS", value |-> value,
                           caseSensitive |-> FALSE]]]

\* C23: the compiled steps are the input steps, one for one and in order:
\* same name, an event filter on eventName, isDirectlyFollowedBy as given or
\* false, withinDurationFromPriorStep as given, and the nested filter on
\* page_location exactly when the step holds pageLocationContains.
C23_CompiledSteps ==
    fn.pc \in {"awaiting", "answered", "failed", "returned"}
    => /\ Len(fn.compiled) = Len(fn.steps)
       /\ \A i \in 1..Len(fn.steps) :
             LET s == fn.steps[i]
                 c == fn.compiled[i]
                 f == c.filterExpression.funnelEventFilter
             IN /\ c.name = s.name
                /\ f.eventName = s.eventName
                /\ c.isDirectlyFollowedBy =
                      (IF s.isDirectlyFollowedBy = UNDEF THEN Bool(FALSE)
                       ELSE s.isDirectlyFollowedBy)
                /\ c.withinDurationFromPriorStep = s.withinDurationFromPriorStep
                /\ ("funnelParameterFilterExpression" \in DOMAIN f)
                      <=> s.pageLocationContains # UNDEF
                /\ s.pageLocationContains # UNDEF
                      => Prop(f, "funnelParameterFilterExpression")
                            = PageFilter(s.pageLocationContains)

\* a sub-table flattened with its own headers: one record per row, one field
\* per header, every metric a finite number
Flattened(out, table) ==
    LET dims == IF table = UNDEF THEN <<>> ELSE HeaderNames(table.dimensionHeaders)
        mets == IF table = UNDEF THEN <<>> ELSE HeaderNames(table.metricHeaders)
        rows == IF table = UNDEF THEN <<>> ELSE OrEmpty(table.rows)
    IN /\ out # UNDEF
       /\ Len(out.rows) = Len(rows)
       /\ \A i \in 1..Len(out.rows) :
             /\ DOMAIN out.rows[i] = Range(dims) \cup Range(mets)
             /\ \A k \in Range(mets) : IsFinite(out.rows[i][k])

\* C24: the result holds the step table and the visualization table, each
\* flattened on its own headers.
C24_BothTablesFlattened ==
    fn.pc = "returned"
    => /\ Flattened(Prop(fn.out, "funnelTable"), fn.resp.funnelTable)
       /\ Flattened(Prop(fn.out, "funnelVisualization"), fn.resp.funnelVisualization)

(***************************************************************************)
(* Further properties of the gateway (Spec).                               *)
(***************************************************************************)
\* the error message a response carries: its message member, or the error
\* member of the handler's result
ErrorMessage(resp) ==
    IF resp.message # NoMsg THEN resp.message
    ELSE IF /\ resp.result.kind = "content"
            /\ "error" \in DOMAIN resp.result.content[1].text.json
         THEN resp.result.content[1].text.json.error
         ELSE NoMsg

\* C25: no response carries an error message longer than 800 characters.
C25_MessageBounded ==
    \A r \in Reqs :
        inv[r].sent > 0 => ErrorMessage(inv[r].resp).len <= 800

(***************************************************************************)
(* Properties of concurrent invocations (SpecShared).                      *)
(***************************************************************************)
\* C27: whatever the interleaving, the response an invocation receives is
\* the one its own handler built from its own arguments and from the
\* backend's answer to its own call.  (The set of registered tools is a
\* constant of each file.)
C27_OwnResponse ==
    \A r \in DOMAIN inv :
        (inv[r].sent > 0 /\ inv[r].handler # "")
        => /\ inv[r].backend \in {"answered", "failed"}
           /\ inv[r].resp = DeliverSdk(variant, inv[r]).resp

====
